---- MODULE Spec2Model ----
(***************************************************************************)
(* Domain registry overlay of beyondcoin: the copy-on-write domain cache   *)
(* (CDomainCache), its merge iterator (CCacheDomainIterator), the mempool  *)
(* conflict tracker (CDomainMemPool) and the apply / expire / unexpire /   *)
(* undo operations of src/domains/main.cpp.                                *)
(*                                                                         *)
(* One module, several specifications, one per component: each fixes the   *)
(* variables of the other components.                                      *)
(*   SpecCache : set / remove / setHistory / add-, removeExpireIndex /     *)
(*               apply / clear on two cache layers                         *)
(*   SpecIter  : seek / next of the merge iterator over a cache and a base *)
(*   SpecPool  : checkTx, gated addUnchecked, remove and the evictions     *)
(*   SpecChain : blocks connected (ApplyDomainTransaction, ExpireDomains)  *)
(*               and disconnected (UnexpireDomains, domain undo)           *)
(***************************************************************************)
EXTENDS Integers, Sequences, FiniteSets, TLC

VARIABLES
    fDomainHistory,  \* the process-wide history switch (common.cpp:10)
    cache,           \* a CDomainCache: the layer written to (the parent in apply)
    child,           \* a second CDomainCache, flushed into cache by apply
    nOps,            \* number of mutator calls made so far (bounds the run)
    lastOp,          \* the last operation performed
    \* CCacheDomainIterator over cache and a base iterator
    base,            \* contents of the store the base iterator enumerates
    basePos,         \* cursor of the base iterator (index into its sorted keys)
    baseHasMore,     \* whether the base iterator has more entries
    baseDomain,      \* "next" domain of the base iterator
    baseData,        \* "next" data of the base iterator
    cacheIter,       \* iterator into cache.entries (index into its sorted keys)
    seekStart,       \* argument of the last seek
    out,             \* the (domain, data) pairs returned by next since the last seek
    iterRet,         \* return value of the last next (TRUE before the first)
    \* CDomainMemPool and its parent CTxMemPool
    mapTx,           \* pool.mapTx: the ids of the transactions in the pool
    mapDomainRegs,   \* domain -> id of the pooled transaction registering it
    mapDomainUpdates,\* domain -> id of the pooled transaction updating it
    mapDomainNews,   \* DOMAIN_NEW hash -> transaction id, never pruned
    removed,         \* ids the last operation removed from the pool
    checkRet,        \* argument and return value of the last checkTx
    poolAbort,       \* an assertion of the registry failed
    poolArg,         \* argument of the last call on the pool
    \* the chain state worked on by apply / expire / unexpire / undo
    view,            \* the CCoinsViewCache: coins, domain cache, database
    blockUndo,       \* CBlockUndo of the block: vdomainundo and vexpired
    chainHeight,     \* height of the block being connected or disconnected
    phase,           \* where the block is in connection / disconnection
    chainRet,        \* outcome of the last ExpireDomains / UnexpireDomains
    names,           \* the caller's set filled by Expire- / UnexpireDomains
    snapBlock,       \* the view before the block's first transaction
    snapExpire,      \* the view before the block's ExpireDomains
    nextTx,          \* hash of the next transaction to be connected
    rules,           \* the rule set's expiration depths, by height
    chainBlocks,     \* the blocks connected since the start, oldest first
    \* CheckDomainTransaction
    valCall,         \* transaction and flag of the last CheckDomainTransaction
    valRet,          \* its outcome
    valState,        \* whether it has marked the CValidationState invalid
    \* updateDomainsForHeight
    updCall,         \* height and domain set of the last updateDomainsForHeight
    updRet,          \* the domain set it has left
    \* flushing a child cache, and single calls of a function
    flushBase,       \* the parent cache as it was before the child was filled
    fnCall,          \* arguments of the last call of a function
    fnRet,           \* what it returned
    \* one CDomainHistory object
    historyData      \* its data: the stack of records, oldest first

cacheVars == <<fDomainHistory, cache, child, nOps>>

iterVars == <<base, basePos, baseHasMore, baseDomain, baseData, cacheIter,
              seekStart, out, iterRet>>

poolMaps == <<mapDomainRegs, mapDomainUpdates, mapDomainNews>>

poolVars == <<mapTx, poolMaps, removed, checkRet, poolAbort, poolArg>>

chainVars == <<view, blockUndo, chainHeight, phase, chainRet, names, snapBlock,
               snapExpire, nextTx, rules, chainBlocks>>

valVars == <<valCall, valRet, valState>>

updVars == <<updCall, updRet>>

fnVars == <<flushBase, fnCall, fnRet, historyData>>

vars == <<cacheVars, lastOp, iterVars, poolVars, chainVars, valVars, updVars,
          fnVars>>

(***************************************************************************)
(* Bounds and value universes.                                             *)
(***************************************************************************)
\* Longest sequence of cache mutator calls explored by SpecCache.
MaxOps == 4

\* Largest update height passed to add-/removeExpireIndex by SpecCache.
MaxIndexHeight == 1

\* Domain keys (valtype = byte vectors): "a", "b", "aa", "ba".  Keys of
\* different lengths whose length-first order differs from the plain
\* lexicographic order ("b" before "aa").
Domains == {<<1>>, <<2>>, <<1, 1>>, <<2, 1>>}

\* The domain arguments of the mutator calls of SpecCache.
CacheDomains == {<<2>>, <<1, 1>>}

\* The empty valtype, valtype ().
EmptyDomain == <<>>

\* Value bytes of the records used by the cache specifications.
Values == {1, 2}

None == [none |-> TRUE]

(***************************************************************************)
(* CDomainData: value, nHeight, prevout, addr.                             *)
(***************************************************************************)
CDomainData(v, h, prev, a) ==
    [value |-> v, nHeight |-> h, prevout |-> prev, addr |-> a]

\* operator== of CDomainData: all four fields.
CDomainData_eq(a, b) ==
    /\ a.value = b.value
    /\ a.nHeight = b.nHeight
    /\ a.prevout = b.prevout
    /\ a.addr = b.addr

\* The records the cache specifications store.
DataVals == {CDomainData(v, 1, <<1, 0>>, 1) : v \in Values}

(***************************************************************************)
(* Orderings.                                                              *)
(***************************************************************************)
\* operator< of valtype (std::vector<unsigned char>): lexicographic.
LexLess(a, b) ==
    \E i \in 1..Len(b) :
        /\ \A j \in 1..(i - 1) : j <= Len(a) /\ a[j] = b[j]
        /\ (i > Len(a) \/ a[i] < b[i])

\* A comparator that is lexicographic whatever the lengths.
DomainComparator_lexicographic(a, b) == LexLess(a, b)

\* CDomainCache::DomainComparator: by length first, then lexicographic.
DomainComparator(a, b) ==
    IF Len(a) # Len(b) THEN Len(a) < Len(b) ELSE LexLess(a, b)

\* ExpireEntry and its operator<: by height, then by raw domain bytes.
ExpireEntry(h, d) == [nHeight |-> h, domain |-> d]

ExpireEntry_less(a, b) ==
    IF a.nHeight # b.nHeight THEN a.nHeight < b.nHeight
    ELSE LexLess(a.domain, b.domain)

(***************************************************************************)
(* CDomainHistory: a stack of superseded records, oldest first.            *)
(***************************************************************************)
Histories == {<<>>, <<CDomainData(1, 1, <<1, 0>>, 1)>>}

(***************************************************************************)
(* CDomainCache.  entries, history and expireIndex are std::maps: functions *)
(* whose DOMAIN is the set of keys present.                                *)
(***************************************************************************)
EmptyMap == [x \in {} |-> None]

\* std::map insert-or-assign of one key.
MapPut(m, k, v) == [x \in (DOMAIN m) \cup {k} |-> IF x = k THEN v ELSE m[x]]

\* std::map erase of one key.
MapErase(m, k) == [x \in (DOMAIN m) \ {k} |-> m[x]]

\* The state after construction, and after clear ().
CDomainCache_clear ==
    [entries |-> EmptyMap, deleted |-> {}, history |-> EmptyMap,
     expireIndex |-> EmptyMap]

CDomainCache_isDeleted(c, domain) == domain \in c.deleted

\* get: looks only in entries.
CDomainCache_get(c, domain) ==
    IF domain \in DOMAIN c.entries THEN c.entries[domain] ELSE None

\* A set () that forgets to clear the "deleted" mark.
CDomainCache_set_keepMark(c, domain, data) ==
    [c EXCEPT !.entries = MapPut(c.entries, domain, data)]

CDomainCache_set(c, domain, data) ==
    [c EXCEPT !.deleted = c.deleted \ {domain},
              !.entries = MapPut(c.entries, domain, data)]

CDomainCache_remove(c, domain) ==
    [c EXCEPT !.entries = MapErase(c.entries, domain),
              !.deleted = c.deleted \cup {domain}]

CDomainCache_setHistory(c, domain, data) ==
    [c EXCEPT !.history = MapPut(c.history, domain, data)]

CDomainCache_addExpireIndex(c, domain, height) ==
    [c EXCEPT !.expireIndex = MapPut(c.expireIndex, ExpireEntry(height, domain), TRUE)]

\* A removeExpireIndex that drops the pending change of the key.
CDomainCache_removeExpireIndex_erase(c, domain, height) ==
    [c EXCEPT !.expireIndex = MapErase(c.expireIndex, ExpireEntry(height, domain))]

CDomainCache_removeExpireIndex(c, domain, height) ==
    [c EXCEPT !.expireIndex = MapPut(c.expireIndex, ExpireEntry(height, domain), FALSE)]

\* The four loops of apply, each over the keys of one container of other.
RECURSIVE ApplyEntries(_, _, _)
ApplyEntries(c, other, keys) ==
    IF keys = {} THEN c
    ELSE LET k == CHOOSE x \in keys : \A y \in keys \ {x} : DomainComparator(x, y)
         IN  ApplyEntries(CDomainCache_set(c, k, other.entries[k]), other, keys \ {k})

RECURSIVE ApplyDeleted(_, _)
ApplyDeleted(c, keys) ==
    IF keys = {} THEN c
    ELSE LET k == CHOOSE x \in keys : \A y \in keys \ {x} : LexLess(x, y)
         IN  ApplyDeleted(CDomainCache_remove(c, k), keys \ {k})

RECURSIVE ApplyHistory(_, _, _)
ApplyHistory(c, other, keys) ==
    IF keys = {} THEN c
    ELSE LET k == CHOOSE x \in keys : \A y \in keys \ {x} : LexLess(x, y)
         IN  ApplyHistory(CDomainCache_setHistory(c, k, other.history[k]), other,
                          keys \ {k})

RECURSIVE ApplyExpireIndex(_, _, _)
ApplyExpireIndex(c, other, keys) ==
    IF keys = {} THEN c
    ELSE LET k == CHOOSE x \in keys : \A y \in keys \ {x} : ExpireEntry_less(x, y)
             m == MapPut(c.expireIndex, k, other.expireIndex[k])
         IN  ApplyExpireIndex([c EXCEPT !.expireIndex = m], other, keys \ {k})

\* An apply that leaves out the deletions of the applied cache.
CDomainCache_apply_noDeleted(c, other) ==
    LET c1 == ApplyEntries(c, other, DOMAIN other.entries)
        c3 == ApplyHistory(c1, other, DOMAIN other.history)
    IN  ApplyExpireIndex(c3, other, DOMAIN other.expireIndex)

CDomainCache_apply(c, other) ==
    LET c1 == ApplyEntries(c, other, DOMAIN other.entries)
        c2 == ApplyDeleted(c1, other.deleted)
        c3 == ApplyHistory(c2, other, DOMAIN other.history)
    IN  ApplyExpireIndex(c3, other, DOMAIN other.expireIndex)

\* empty (): TRUE / FALSE, or "abort" when its assertion fails.
CDomainCache_empty(c) ==
    IF c.entries = EmptyMap /\ c.deleted = {}
    THEN IF c.history = EmptyMap /\ c.expireIndex = EmptyMap THEN "true" ELSE "abort"
    ELSE "false"

(***************************************************************************)
(* CCacheDomainIterator: the merge of a base iterator with cache.          *)
(***************************************************************************)
\* The keys of S as std::map / the store keeps them: ascending in
\* DomainComparator.
RECURSIVE SortedKeys(_)
SortedKeys(S) ==
    IF S = {} THEN <<>>
    ELSE LET k == CHOOSE x \in S : \A y \in S \ {x} : DomainComparator(x, y)
         IN  <<k>> \o SortedKeys(S \ {k})

\* lower_bound: index of the first key that is not before start, Len + 1
\* (end) when there is none.
LowerBound(keys, start) ==
    LET hits == {i \in 1..Len(keys) : ~DomainComparator(keys[i], start)}
    IN  IF hits = {} THEN Len(keys) + 1
        ELSE CHOOSE i \in hits : \A j \in hits : i <= j

\* The iterator's fields as one record.
IterState ==
    [basePos |-> basePos, baseHasMore |-> baseHasMore, baseDomain |-> baseDomain,
     baseData |-> baseData, cacheIter |-> cacheIter]

\* CDomainIterator::next of the base iterator: the entry under the cursor,
\* or "no more" past the last key (the output arguments are then untouched).
BaseIterator_next(c, b, st) ==
    LET keys == SortedKeys(DOMAIN b)
    IN  IF st.basePos > Len(keys)
        THEN [st EXCEPT !.baseHasMore = FALSE]
        ELSE [st EXCEPT !.baseHasMore = TRUE,
                        !.baseDomain = keys[st.basePos],
                        !.baseData = b[keys[st.basePos]],
                        !.basePos = st.basePos + 1]

\* An advanceBaseIterator that does not skip deleted entries.
advanceBaseIterator_noSkip(c, b, st) == BaseIterator_next(c, b, st)

\* advanceBaseIterator: do next () while the entry is marked deleted.
RECURSIVE advanceBaseIterator(_, _, _)
advanceBaseIterator(c, b, st) ==
    LET st1 == BaseIterator_next(c, b, st)
    IN  IF st1.baseHasMore /\ CDomainCache_isDeleted(c, st1.baseDomain)
        THEN advanceBaseIterator(c, b, st1)
        ELSE st1

\* seek: lower_bound in the cache's entries, seek of the base iterator,
\* then one advance.
CCacheDomainIterator_seek(c, b, st, start) ==
    LET st1 == [st EXCEPT
                  !.cacheIter = LowerBound(SortedKeys(DOMAIN c.entries), start),
                  !.basePos = LowerBound(SortedKeys(DOMAIN b), start),
                  !.baseHasMore = TRUE]
    IN  advanceBaseIterator(c, b, st1)

\* A next () that does not advance the base iterator past a key the cache
\* holds as well.
CCacheDomainIterator_next_keepEqual(c, b, st) ==
    LET keys == SortedKeys(DOMAIN c.entries)
        atEnd == st.cacheIter > Len(keys)
    IN  IF ~st.baseHasMore /\ atEnd
        THEN [ret |-> FALSE, st |-> st, domain |-> None, data |-> None]
        ELSE LET useBase ==
                     IF ~st.baseHasMore THEN FALSE
                     ELSE IF atEnd THEN TRUE
                     ELSE DomainComparator(st.baseDomain, keys[st.cacheIter])
             IN  IF useBase
                 THEN [ret |-> TRUE, st |-> advanceBaseIterator(c, b, st),
                       domain |-> st.baseDomain, data |-> st.baseData]
                 ELSE [ret |-> TRUE,
                       st |-> [st EXCEPT !.cacheIter = st.cacheIter + 1],
                       domain |-> keys[st.cacheIter],
                       data |-> c.entries[keys[st.cacheIter]]]

\* A next () that exits as soon as the cache's entries are used up.
CCacheDomainIterator_next_cacheExit(c, b, st) ==
    LET keys == SortedKeys(DOMAIN c.entries)
        atEnd == st.cacheIter > Len(keys)
    IN  IF atEnd
        THEN [ret |-> FALSE, st |-> st, domain |-> None, data |-> None]
        ELSE LET st1 == IF st.baseHasMore /\ st.baseDomain = keys[st.cacheIter]
                        THEN advanceBaseIterator(c, b, st)
                        ELSE st
                 useBase ==
                     IF ~st1.baseHasMore THEN FALSE
                     ELSE DomainComparator(st1.baseDomain, keys[st.cacheIter])
             IN  IF useBase
                 THEN [ret |-> TRUE, st |-> advanceBaseIterator(c, b, st1),
                       domain |-> st1.baseDomain, data |-> st1.baseData]
                 ELSE [ret |-> TRUE,
                       st |-> [st1 EXCEPT !.cacheIter = st1.cacheIter + 1],
                       domain |-> keys[st.cacheIter],
                       data |-> c.entries[keys[st.cacheIter]]]

\* next: [ret, st, domain, data]; domain and data are the output arguments,
\* None when they are left untouched.  The base keys are strictly increasing,
\* so after the advance the two keys differ, as next () asserts.
CCacheDomainIterator_next(c, b, st) ==
    LET keys == SortedKeys(DOMAIN c.entries)
        atEnd == st.cacheIter > Len(keys)
    IN  IF ~st.baseHasMore /\ atEnd
        THEN [ret |-> FALSE, st |-> st, domain |-> None, data |-> None]
        ELSE LET \* both sources hold the same key: the cached version is used
                 \* and the base iterator advanced
                 st1 == IF st.baseHasMore /\ ~atEnd
                           /\ st.baseDomain = keys[st.cacheIter]
                        THEN advanceBaseIterator(c, b, st)
                        ELSE st
                 useBase ==
                     IF ~st.baseHasMore THEN FALSE
                     ELSE IF atEnd THEN TRUE
                     ELSE IF ~st1.baseHasMore THEN FALSE
                     ELSE DomainComparator(st1.baseDomain, keys[st.cacheIter])
             IN  IF useBase
                 THEN [ret |-> TRUE, st |-> advanceBaseIterator(c, b, st1),
                       domain |-> st1.baseDomain, data |-> st1.baseData]
                 ELSE [ret |-> TRUE,
                       st |-> [st1 EXCEPT !.cacheIter = st1.cacheIter + 1],
                       domain |-> keys[st.cacheIter],
                       data |-> c.entries[keys[st.cacheIter]]]

\* The iterator variables while no iterator exists.
IterUnused ==
    /\ base = EmptyMap
    /\ basePos = 1
    /\ baseHasMore = FALSE
    /\ baseDomain = None
    /\ baseData = None
    /\ cacheIter = 1
    /\ seekStart = EmptyDomain
    /\ out = <<>>
    /\ iterRet = TRUE

(***************************************************************************)
(* Domain scripts and transactions.                                        *)
(***************************************************************************)
\* A CDomainScript: the operation an output script encodes, OP_NOP for a
\* script that is no domain operation.
Script(op, hash, domain) ==
    [op |-> op, hash |-> hash, domain |-> domain, value |-> 1, addr |-> 1]

ScriptNew(hash) == Script("OP_DOMAIN_NEW", hash, EmptyDomain)

ScriptFirstUpdate(domain) == Script("OP_DOMAIN_FIRSTUPDATE", <<>>, domain)

ScriptUpdate(domain) == Script("OP_DOMAIN_UPDATE", <<>>, domain)

ScriptOther == Script("OP_NOP", <<>>, EmptyDomain)

isDomainOp(script) ==
    script.op \in {"OP_DOMAIN_NEW", "OP_DOMAIN_FIRSTUPDATE", "OP_DOMAIN_UPDATE"}

isAnyUpdate(script) ==
    script.op \in {"OP_DOMAIN_FIRSTUPDATE", "OP_DOMAIN_UPDATE"}

\* The domains and the commitment hash of the pooled transactions.
PoolD1 == <<1>>

PoolD2 == <<2>>

PoolDomains == {PoolD1, PoolD2}

PoolHash == <<7, 7>>

\* A transaction as the pool sees it: its hash, whether its version marks it
\* as domain-bearing (IsBeyondcoin), its output scripts, and the hash of a
\* transaction one of its inputs spends (0: its inputs are in the chain).
PoolTx(beyond, vout, parent) == [beyond |-> beyond, vout |-> vout, parent |-> parent]

\* The transactions offered to the pool, by hash.  1-9 have the shape
\* CheckDomainTransaction accepts; 10-14 do not (two domain outputs, or a
\* domain output without the version flag) and only reach checkTx.
Txs ==
    <<PoolTx(TRUE, <<ScriptFirstUpdate(PoolD1)>>, 0),
      PoolTx(TRUE, <<ScriptFirstUpdate(PoolD1)>>, 0),
      PoolTx(TRUE, <<ScriptOther, ScriptUpdate(PoolD1)>>, 1),
      PoolTx(TRUE, <<ScriptUpdate(PoolD1)>>, 0),
      PoolTx(TRUE, <<ScriptNew(PoolHash)>>, 0),
      PoolTx(TRUE, <<ScriptNew(PoolHash), ScriptOther>>, 0),
      PoolTx(TRUE, <<ScriptFirstUpdate(PoolD2)>>, 4),
      PoolTx(FALSE, <<ScriptOther>>, 0),
      PoolTx(TRUE, <<ScriptUpdate(PoolD2)>>, 0),
      PoolTx(TRUE, <<ScriptNew(PoolHash), ScriptFirstUpdate(PoolD1)>>, 0),
      PoolTx(TRUE, <<ScriptUpdate(PoolD1), ScriptUpdate(PoolD2)>>, 0),
      PoolTx(FALSE, <<ScriptFirstUpdate(PoolD1)>>, 0),
      PoolTx(FALSE, <<ScriptOther, ScriptUpdate(PoolD2)>>, 0),
      PoolTx(FALSE, <<ScriptNew(PoolHash)>>, 0)>>

TxIds == DOMAIN Txs

DomainOutputs(tx) == {i \in DOMAIN tx.vout : isDomainOp(tx.vout[i])}

\* The shape CheckDomainTransaction lets into the pool: no domain output
\* without the version flag, exactly one with it.
ValidShape(tx) ==
    Cardinality(DomainOutputs(tx)) = (IF tx.beyond THEN 1 ELSE 0)

\* CTxMemPoolEntry: the domain operation of a domain-bearing transaction.
EntryOp(tx) ==
    IF tx.beyond /\ DomainOutputs(tx) # {}
    THEN tx.vout[CHOOSE i \in DomainOutputs(tx) : \A j \in DomainOutputs(tx) : i <= j]
    ELSE ScriptOther

isDomainNew(tx) == EntryOp(tx).op = "OP_DOMAIN_NEW"

isDomainRegistration(tx) == EntryOp(tx).op = "OP_DOMAIN_FIRSTUPDATE"

isDomainUpdate(tx) == EntryOp(tx).op = "OP_DOMAIN_UPDATE"

getDomain(tx) == EntryOp(tx).domain

getDomainNewHash(tx) == EntryOp(tx).hash

(***************************************************************************)
(* CDomainMemPool.  Its operators work on the record of the registry's     *)
(* three maps, the parent pool's mapTx, and the abort flag.                *)
(***************************************************************************)
PoolState ==
    [mapTx |-> mapTx, mapDomainRegs |-> mapDomainRegs,
     mapDomainUpdates |-> mapDomainUpdates, mapDomainNews |-> mapDomainNews,
     removed |-> {}, abort |-> poolAbort]

Abort(p) == [p EXCEPT !.abort = TRUE]

registersDomain(p, domain) == domain \in DOMAIN p.mapDomainRegs

updatesDomain(p, domain) == domain \in DOMAIN p.mapDomainUpdates

\* A checkTx that rejects a DOMAIN_NEW whose hash is mapped at all, even to
\* the transaction itself.
RECURSIVE checkTx_anyNew(_, _, _, _)
checkTx_anyNew(p, hash, tx, i) ==
    IF i > Len(tx.vout) THEN TRUE
    ELSE LET domainOp == tx.vout[i]
         IN  IF ~isDomainOp(domainOp) THEN checkTx_anyNew(p, hash, tx, i + 1)
             ELSE IF domainOp.op = "OP_DOMAIN_NEW"
                     /\ domainOp.hash \in DOMAIN p.mapDomainNews
             THEN FALSE
             ELSE IF domainOp.op = "OP_DOMAIN_FIRSTUPDATE"
                     /\ registersDomain(p, domainOp.domain)
             THEN FALSE
             ELSE IF domainOp.op = "OP_DOMAIN_UPDATE"
                     /\ updatesDomain(p, domainOp.domain)
             THEN FALSE
             ELSE checkTx_anyNew(p, hash, tx, i + 1)

\* The loop of checkTx over tx.vout, from output i on.
RECURSIVE checkTxOutputs(_, _, _, _)
checkTxOutputs(p, hash, tx, i) ==
    IF i > Len(tx.vout) THEN TRUE
    ELSE LET domainOp == tx.vout[i]
         IN  IF ~isDomainOp(domainOp) THEN checkTxOutputs(p, hash, tx, i + 1)
             ELSE IF domainOp.op = "OP_DOMAIN_NEW"
                     /\ domainOp.hash \in DOMAIN p.mapDomainNews
                     /\ p.mapDomainNews[domainOp.hash] # hash
             THEN FALSE
             ELSE IF domainOp.op = "OP_DOMAIN_FIRSTUPDATE"
                     /\ registersDomain(p, domainOp.domain)
             THEN FALSE
             ELSE IF domainOp.op = "OP_DOMAIN_UPDATE"
                     /\ updatesDomain(p, domainOp.domain)
             THEN FALSE
             ELSE checkTxOutputs(p, hash, tx, i + 1)

\* checkTx of the transaction with the given hash.
CDomainMemPool_checkTx(p, hash) ==
    IF ~Txs[hash].beyond THEN TRUE
    ELSE checkTxOutputs(p, hash, Txs[hash], 1)

\* An addUnchecked that fails on any DOMAIN_NEW hash that is mapped, even to
\* the transaction itself.
CDomainMemPool_addUnchecked_anyNew(p, hash) ==
    LET entry == Txs[hash]
        p1 == IF ~isDomainNew(entry) THEN p
              ELSE IF getDomainNewHash(entry) \in DOMAIN p.mapDomainNews
              THEN Abort(p)
              ELSE [p EXCEPT !.mapDomainNews =
                                MapPut(p.mapDomainNews, getDomainNewHash(entry), hash)]
        p2 == IF ~isDomainRegistration(entry) THEN p1
              ELSE IF getDomain(entry) \in DOMAIN p1.mapDomainRegs THEN Abort(p1)
              ELSE [p1 EXCEPT !.mapDomainRegs =
                                 MapPut(p1.mapDomainRegs, getDomain(entry), hash)]
    IN  IF ~isDomainUpdate(entry) THEN p2
        ELSE IF getDomain(entry) \in DOMAIN p2.mapDomainUpdates THEN Abort(p2)
        ELSE [p2 EXCEPT !.mapDomainUpdates =
                           MapPut(p2.mapDomainUpdates, getDomain(entry), hash)]

\* addUnchecked; the update branch uses the entry's domain, as the
\* registration branch does.
CDomainMemPool_addUnchecked(p, hash) ==
    LET entry == Txs[hash]
        p1 == IF ~isDomainNew(entry) THEN p
              ELSE IF getDomainNewHash(entry) \in DOMAIN p.mapDomainNews
              THEN (IF p.mapDomainNews[getDomainNewHash(entry)] = hash
                    THEN p ELSE Abort(p))
              ELSE [p EXCEPT !.mapDomainNews =
                                MapPut(p.mapDomainNews, getDomainNewHash(entry), hash)]
        p2 == IF ~isDomainRegistration(entry) THEN p1
              ELSE IF getDomain(entry) \in DOMAIN p1.mapDomainRegs THEN Abort(p1)
              ELSE [p1 EXCEPT !.mapDomainRegs =
                                 MapPut(p1.mapDomainRegs, getDomain(entry), hash)]
    IN  IF ~isDomainUpdate(entry) THEN p2
        ELSE IF getDomain(entry) \in DOMAIN p2.mapDomainUpdates THEN Abort(p2)
        ELSE [p2 EXCEPT !.mapDomainUpdates =
                           MapPut(p2.mapDomainUpdates, getDomain(entry), hash)]

\* A remove that also prunes the DOMAIN_NEW hash of the entry.
CDomainMemPool_remove_prunesNews(p, hash) ==
    LET entry == Txs[hash]
        p1 == IF ~isDomainNew(entry) THEN p
              ELSE [p EXCEPT !.mapDomainNews =
                                MapErase(p.mapDomainNews, getDomainNewHash(entry))]
        p2 == IF ~isDomainRegistration(entry) THEN p1
              ELSE [p1 EXCEPT !.mapDomainRegs =
                                 MapErase(p1.mapDomainRegs, getDomain(entry))]
    IN  IF ~isDomainUpdate(entry) THEN p2
        ELSE [p2 EXCEPT !.mapDomainUpdates =
                           MapErase(p2.mapDomainUpdates, getDomain(entry))]

\* A remove that leaves the registration map alone.
CDomainMemPool_remove_updatesOnly(p, hash) ==
    LET entry == Txs[hash]
    IN  IF ~isDomainUpdate(entry) THEN p
        ELSE [p EXCEPT !.mapDomainUpdates =
                          MapErase(p.mapDomainUpdates, getDomain(entry))]

\* A remove that leaves the update map alone.
CDomainMemPool_remove_regsOnly(p, hash) ==
    LET entry == Txs[hash]
    IN  IF ~isDomainRegistration(entry) THEN p
        ELSE [p EXCEPT !.mapDomainRegs = MapErase(p.mapDomainRegs, getDomain(entry))]

\* remove of the entry of the transaction with the given hash.
CDomainMemPool_remove(p, hash) ==
    LET entry == Txs[hash]
        p1 == IF ~isDomainRegistration(entry) THEN p
              ELSE IF getDomain(entry) \notin DOMAIN p.mapDomainRegs THEN Abort(p)
              ELSE [p EXCEPT !.mapDomainRegs =
                                MapErase(p.mapDomainRegs, getDomain(entry))]
    IN  IF ~isDomainUpdate(entry) THEN p1
        ELSE IF getDomain(entry) \notin DOMAIN p1.mapDomainUpdates THEN Abort(p1)
        ELSE [p1 EXCEPT !.mapDomainUpdates =
                           MapErase(p1.mapDomainUpdates, getDomain(entry))]

\* The pooled transactions that (transitively) spend outputs of those in S.
RECURSIVE Descendants(_, _)
Descendants(p, S) ==
    LET more == {t \in p.mapTx \ S : Txs[t].parent \in S}
    IN  IF more = {} THEN S ELSE Descendants(p, S \cup more)

\* Removal of the entries in S, one after the other.
RECURSIVE RemoveEntries(_, _)
RemoveEntries(p, S) ==
    IF S = {} THEN p
    ELSE LET t == CHOOSE x \in S : \A y \in S : x <= y
             p1 == CDomainMemPool_remove(p, t)
         IN  RemoveEntries([p1 EXCEPT !.mapTx = p1.mapTx \ {t},
                                      !.removed = p1.removed \cup {t}], S \ {t})

\* CTxMemPool::remove (tx, removed, fRecursive): the transaction and, when
\* recursive, its pooled descendants leave mapTx, each through remove.
CTxMemPool_remove(p, hash, fRecursive) ==
    RemoveEntries(p, (IF fRecursive THEN Descendants(p, {hash}) ELSE {hash})
                         \cap p.mapTx)

\* Eviction of the transaction a registry map names; it must be in mapTx.
Evict(p, hash) ==
    IF hash \notin p.mapTx THEN Abort(p) ELSE CTxMemPool_remove(p, hash, TRUE)

\* The loop of removeConflicts over tx.vout, from output i on.
RECURSIVE removeConflictsOutputs(_, _, _)
removeConflictsOutputs(p, tx, i) ==
    IF i > Len(tx.vout) \/ p.abort THEN p
    ELSE LET domainOp == tx.vout[i]
         IN  IF domainOp.op = "OP_DOMAIN_FIRSTUPDATE"
                /\ domainOp.domain \in DOMAIN p.mapDomainRegs
             THEN removeConflictsOutputs(
                      Evict(p, p.mapDomainRegs[domainOp.domain]), tx, i + 1)
             ELSE removeConflictsOutputs(p, tx, i + 1)

\* A removeConflicts that does not look at the transaction's version.
CDomainMemPool_removeConflicts_anyVersion(p, hash) ==
    removeConflictsOutputs(p, Txs[hash], 1)

\* removeConflicts of the confirmed transaction with the given hash.
CDomainMemPool_removeConflicts(p, hash) ==
    IF ~Txs[hash].beyond THEN p ELSE removeConflictsOutputs(p, Txs[hash], 1)

\* A removeUnexpireConflicts that evicts the update of each domain.
RECURSIVE CDomainMemPool_removeUnexpireConflicts_updates(_, _)
CDomainMemPool_removeUnexpireConflicts_updates(p, unexpired) ==
    IF unexpired = {} \/ p.abort THEN p
    ELSE LET domain == CHOOSE x \in unexpired :
                           \A y \in unexpired \ {x} : LexLess(x, y)
             p1 == IF domain \in DOMAIN p.mapDomainUpdates
                   THEN Evict(p, p.mapDomainUpdates[domain]) ELSE p
         IN  CDomainMemPool_removeUnexpireConflicts_updates(p1, unexpired \ {domain})

\* removeUnexpireConflicts: evict the registration of each unexpired domain.
RECURSIVE CDomainMemPool_removeUnexpireConflicts(_, _)
CDomainMemPool_removeUnexpireConflicts(p, unexpired) ==
    IF unexpired = {} \/ p.abort THEN p
    ELSE LET domain == CHOOSE x \in unexpired :
                           \A y \in unexpired \ {x} : LexLess(x, y)
             p1 == IF domain \in DOMAIN p.mapDomainRegs
                   THEN Evict(p, p.mapDomainRegs[domain]) ELSE p
         IN  CDomainMemPool_removeUnexpireConflicts(p1, unexpired \ {domain})

\* A removeExpireConflicts that evicts the registration of each domain.
CDomainMemPool_removeExpireConflicts_regs(p, expired) ==
    CDomainMemPool_removeUnexpireConflicts(p, expired)

\* removeExpireConflicts: evict the update of each expired domain.
RECURSIVE CDomainMemPool_removeExpireConflicts(_, _)
CDomainMemPool_removeExpireConflicts(p, expired) ==
    IF expired = {} \/ p.abort THEN p
    ELSE LET domain == CHOOSE x \in expired :
                           \A y \in expired \ {x} : LexLess(x, y)
             p1 == IF domain \in DOMAIN p.mapDomainUpdates
                   THEN Evict(p, p.mapDomainUpdates[domain]) ELSE p
         IN  CDomainMemPool_removeExpireConflicts(p1, expired \ {domain})

\* clear, called with the parent pool's clear.
CDomainMemPool_clear(p) ==
    [p EXCEPT !.mapTx = {}, !.mapDomainRegs = EmptyMap,
              !.mapDomainUpdates = EmptyMap, !.mapDomainNews = EmptyMap]

\* checkRet while the last operation was no checkTx.
NoCheck == [tx |-> 0, ret |-> TRUE]

\* The pool variables after construction.
PoolUnused ==
    /\ mapTx = {}
    /\ mapDomainRegs = EmptyMap
    /\ mapDomainUpdates = EmptyMap
    /\ mapDomainNews = EmptyMap
    /\ removed = {}
    /\ checkRet = NoCheck
    /\ poolAbort = FALSE
    /\ poolArg = None

(***************************************************************************)
(* The chain state.  The view is a CCoinsViewCache: its coins, its domain  *)
(* cache (a CDomainCache) and, below the cache, the database with its      *)
(* records and its expire index.  Output positions count from 1.           *)
(***************************************************************************)
ChainDomains == PoolDomains

\* The name ExpireDomains exempts at one height ("d/postmortem").
PostmortemDomain == <<100, 47, 112>>

PostmortemHeight == 175868

\* The expiration depths of the rule set the chain runs under, from height
\* 0 on; the last one holds for every later height.
DefaultRules == <<2, 2, 2, 1, 1, 1, 1, 1, 1, 1, 3>>

\* rules->DomainExpirationDepth (nHeight)
DomainExpirationDepth(nHeight) ==
    IF nHeight < Len(rules) THEN rules[nHeight + 1] ELSE rules[Len(rules)]

\* The height of the coins of a transaction that is in the mempool.
MEMPOOL_HEIGHT == 2147483647

\* ::isExpired (nPrevHeight, nHeight) fails its first assertion for
\* nHeight == MEMPOOL_HEIGHT.
isExpired_asserts(nHeight) == nHeight = MEMPOOL_HEIGHT

\* ::isExpired (nPrevHeight, nHeight) past that assertion; the unsigned sum
\* does not wrap for the heights of a chain.
isExpired(nPrevHeight, nHeight) ==
    IF nPrevHeight = MEMPOOL_HEIGHT THEN FALSE
    ELSE nPrevHeight + DomainExpirationDepth(nHeight) <= nHeight

CDomainData_isExpired(data, h) == isExpired(data.nHeight, h)

\* A fromScript that does not keep the height.
CDomainData_fromScript_noHeight(h, outpoint, script) ==
    CDomainData(script.value, 0, outpoint, script.addr)

\* A fromScript that does not keep the value.
CDomainData_fromScript_noValue(h, outpoint, script) ==
    CDomainData(<<>>, h, outpoint, script.addr)

\* CDomainData::fromScript: value and address are those of the script.
CDomainData_fromScript(h, outpoint, script) ==
    CDomainData(script.value, h, outpoint, script.addr)

COutPoint(hash, n) == <<hash, n>>

CCoins(vout, h) == [vout |-> vout, nHeight |-> h]

CTxInUndo(txout, h) == [txout |-> txout, nHeight |-> h]

EmptyView ==
    [coins |-> EmptyMap, cacheDomains |-> CDomainCache_clear,
     dbDomains |-> EmptyMap, dbExpireIndex |-> {}, abort |-> FALSE]

ViewAbort(v) == [v EXCEPT !.abort = TRUE]

\* CCoins::IsAvailable of the output an outpoint names; a pruned CCoins is
\* one absent from coins.
IsAvailable(v, outpoint) ==
    /\ outpoint[1] \in DOMAIN v.coins
    /\ outpoint[2] \in DOMAIN v.coins[outpoint[1]].vout
    /\ v.coins[outpoint[1]].vout[outpoint[2]] # None

\* CCoins::Cleanup: drop the spent outputs at the end of vout.
RECURSIVE Cleanup(_)
Cleanup(vout) ==
    IF vout # <<>> /\ vout[Len(vout)] = None
    THEN Cleanup(SubSeq(vout, 1, Len(vout) - 1))
    ELSE vout

\* CCoins::Spend of an available output: the undo entry carries the coins'
\* height exactly when the last output was spent.
Spend(v, outpoint) ==
    LET c == v.coins[outpoint[1]]
        vout == Cleanup([c.vout EXCEPT ![outpoint[2]] = None])
    IN  IF vout = <<>>
        THEN [view |-> [v EXCEPT !.coins = MapErase(v.coins, outpoint[1])],
              undo |-> CTxInUndo(c.vout[outpoint[2]], c.nHeight)]
        ELSE [view |-> [v EXCEPT !.coins =
                           MapPut(v.coins, outpoint[1], CCoins(vout, c.nHeight))],
              undo |-> CTxInUndo(c.vout[outpoint[2]], 0)]

\* ApplyTxInUndo: puts the output back.  Restoring a spent output of coins
\* whose pruned state matches the undo entry succeeds; for any other
\* restore the result is clean, the verdict of the generic coin undo.
ApplyTxInUndo(undo, v, outpoint, clean) ==
    LET pruned == outpoint[1] \notin DOMAIN v.coins
        c == IF undo.nHeight # 0 THEN CCoins(<<>>, undo.nHeight)
             ELSE IF pruned THEN CCoins(<<>>, 0)
             ELSE v.coins[outpoint[1]]
        regular == /\ (undo.nHeight # 0) = pruned
                   /\ ~(outpoint[2] \in DOMAIN c.vout /\ c.vout[outpoint[2]] # None)
        n == IF Len(c.vout) < outpoint[2] THEN outpoint[2] ELSE Len(c.vout)
        vout == [i \in 1..n |-> IF i = outpoint[2] THEN undo.txout
                                ELSE IF i <= Len(c.vout) THEN c.vout[i]
                                ELSE None]
    IN  [view |-> [v EXCEPT !.coins =
                      MapPut(v.coins, outpoint[1], CCoins(vout, c.nHeight))],
         ret |-> IF regular THEN TRUE ELSE clean]

\* CCoinsViewCache::GetDomain: the cache's deleted mark, its entry, else
\* the database.  None for "not found".
GetDomain(v, domain) ==
    IF CDomainCache_isDeleted(v.cacheDomains, domain) THEN None
    ELSE IF CDomainCache_get(v.cacheDomains, domain) # None
    THEN CDomainCache_get(v.cacheDomains, domain)
    ELSE IF domain \in DOMAIN v.dbDomains THEN v.dbDomains[domain]
    ELSE None

\* A loop that goes on to the end of the index.
RECURSIVE updateDomainsForHeightLoop_noBreak(_, _, _, _)
updateDomainsForHeightLoop_noBreak(c, nHeight, keys, domains) ==
    IF keys = {} THEN domains
    ELSE LET cur == CHOOSE x \in keys : \A y \in keys \ {x} : ExpireEntry_less(x, y)
         IN  updateDomainsForHeightLoop_noBreak(c, nHeight, keys \ {cur},
                 IF c.expireIndex[cur] THEN domains \cup {cur.domain}
                 ELSE domains \ {cur.domain})

\* CDomainCache::updateDomainsForHeight: the loop over the expireIndex
\* entries of exactly height nHeight, in the order of the index.
RECURSIVE updateDomainsForHeightLoop(_, _, _, _)
updateDomainsForHeightLoop(c, nHeight, keys, domains) ==
    IF keys = {} THEN domains
    ELSE LET cur == CHOOSE x \in keys : \A y \in keys \ {x} : ExpireEntry_less(x, y)
         IN  IF cur.nHeight > nHeight THEN domains
             ELSE updateDomainsForHeightLoop(c, nHeight, keys \ {cur},
                     IF c.expireIndex[cur] THEN domains \cup {cur.domain}
                     ELSE domains \ {cur.domain})

CDomainCache_updateDomainsForHeight(c, nHeight, domains) ==
    LET seekEntry == ExpireEntry(nHeight, EmptyDomain)
        from == {k \in DOMAIN c.expireIndex : ~ExpireEntry_less(k, seekEntry)}
    IN  updateDomainsForHeightLoop(c, nHeight, from, domains)

\* CCoinsViewCache::GetDomainsForHeight: the database's domains of that
\* height, updated by the cache.
GetDomainsForHeight(v, nHeight) ==
    CDomainCache_updateDomainsForHeight(v.cacheDomains, nHeight,
        {e.domain : e \in {x \in v.dbExpireIndex : x.nHeight = nHeight}})

\* CCoinsViewCache::SetDomain, history tracking off.
SetDomain(v, domain, data, undo) ==
    LET oldData == GetDomain(v, domain)
        c1 == IF oldData # None
              THEN CDomainCache_removeExpireIndex(v.cacheDomains, domain,
                                                  oldData.nHeight)
              ELSE v.cacheDomains
        c2 == CDomainCache_addExpireIndex(CDomainCache_set(c1, domain, data),
                                          domain, data.nHeight)
    IN  IF oldData = None /\ undo THEN ViewAbort(v)
        ELSE [v EXCEPT !.cacheDomains = c2]

\* CCoinsViewCache::DeleteDomain, history tracking off.
DeleteDomain(v, domain) ==
    LET oldData == GetDomain(v, domain)
    IN  IF oldData = None THEN ViewAbort(v)
        ELSE [v EXCEPT !.cacheDomains =
                 CDomainCache_remove(
                     CDomainCache_removeExpireIndex(v.cacheDomains, domain,
                                                    oldData.nHeight),
                     domain)]

\* Flush of the domain cache into the database: entries written, deleted
\* domains erased, the expire index entries added (true) or erased (false).
Flush(v) ==
    LET c == v.cacheDomains
        kept == {d \in DOMAIN v.dbDomains : d \notin c.deleted}
    IN  [v EXCEPT
           !.dbDomains = [d \in kept \cup DOMAIN c.entries |->
                             IF d \in DOMAIN c.entries THEN c.entries[d]
                             ELSE v.dbDomains[d]],
           !.dbExpireIndex =
               (v.dbExpireIndex \ {k \in DOMAIN c.expireIndex : ~c.expireIndex[k]})
                   \cup {k \in DOMAIN c.expireIndex : c.expireIndex[k]},
           !.cacheDomains = CDomainCache_clear]

(***************************************************************************)
(* CDomainTxUndo, ApplyDomainTransaction, ExpireDomains, UnexpireDomains.  *)
(***************************************************************************)
\* A transaction of a block: version flag, output scripts, whether it
\* spends the coins of the domains it updates, and its historic-bug type.
ChainTx(beyond, vout, spendsPrev, bug) ==
    [beyond |-> beyond, vout |-> vout, spendsPrev |-> spendsPrev, bug |-> bug]

CDomainTxUndo_fromOldState(nm, v) ==
    [domain |-> nm, isNew |-> GetDomain(v, nm) = None, oldData |-> GetDomain(v, nm)]

\* An undo that leaves a newly created domain in place.
CDomainTxUndo_apply_noDelete(u, v) ==
    IF u.isNew THEN v ELSE SetDomain(v, u.domain, u.oldData, TRUE)

CDomainTxUndo_apply(u, v) ==
    IF u.isNew THEN DeleteDomain(v, u.domain)
    ELSE SetDomain(v, u.domain, u.oldData, TRUE)

\* The BUG_FULLY_IGNORE loop: spend the any-update outputs of the
\* transaction's own coins.
RECURSIVE SpendBuggyOutputs(_, _, _, _)
SpendBuggyOutputs(v, tx, txHash, i) ==
    IF i > Len(tx.vout) THEN v
    ELSE IF isDomainOp(tx.vout[i]) /\ isAnyUpdate(tx.vout[i])
            /\ IsAvailable(v, COutPoint(txHash, i))
    THEN SpendBuggyOutputs(Spend(v, COutPoint(txHash, i)).view, tx, txHash, i + 1)
    ELSE SpendBuggyOutputs(v, tx, txHash, i + 1)

\* The loop of ApplyDomainTransaction over tx.vout, from output i on; st
\* is the view with the undo list vdomainundo.
RECURSIVE ApplyDomainOutputs(_, _, _, _, _)
ApplyDomainOutputs(st, tx, txHash, nHeight, i) ==
    IF i > Len(tx.vout) THEN st
    ELSE IF isDomainOp(tx.vout[i]) /\ isAnyUpdate(tx.vout[i])
    THEN LET name == tx.vout[i].domain
             opUndo == CDomainTxUndo_fromOldState(name, st.view)
             data == CDomainData_fromScript(nHeight, COutPoint(txHash, i),
                                            tx.vout[i])
         IN  ApplyDomainOutputs(
                 [view |-> SetDomain(st.view, name, data, FALSE),
                  vdomainundo |-> Append(st.vdomainundo, opUndo)],
                 tx, txHash, nHeight, i + 1)
    ELSE ApplyDomainOutputs(st, tx, txHash, nHeight, i + 1)

\* An ApplyDomainTransaction that looks at the version flag first.
ApplyDomainTransaction_versionFirst(tx, txHash, nHeight, v, vdomainundo) ==
    IF ~tx.beyond THEN [view |-> v, vdomainundo |-> vdomainundo]
    ELSE IF tx.bug \notin {"none", "BUG_FULLY_APPLY"}
    THEN [view |-> IF tx.bug = "BUG_FULLY_IGNORE"
                   THEN SpendBuggyOutputs(v, tx, txHash, 1) ELSE v,
          vdomainundo |-> vdomainundo]
    ELSE ApplyDomainOutputs([view |-> v, vdomainundo |-> vdomainundo],
                            tx, txHash, nHeight, 1)

ApplyDomainTransaction(tx, txHash, nHeight, v, vdomainundo) ==
    IF tx.bug \notin {"none", "BUG_FULLY_APPLY"}
    THEN [view |-> IF tx.bug = "BUG_FULLY_IGNORE"
                   THEN SpendBuggyOutputs(v, tx, txHash, 1) ELSE v,
          vdomainundo |-> vdomainundo]
    ELSE IF ~tx.beyond THEN [view |-> v, vdomainundo |-> vdomainundo]
    ELSE ApplyDomainOutputs([view |-> v, vdomainundo |-> vdomainundo],
                            tx, txHash, nHeight, 1)

\* An expire loop without the special rule for "d/postmortem".
RECURSIVE ExpireLoop_noPostmortem(_, _, _)
ExpireLoop_noPostmortem(nHeight, st, todo) ==
    IF todo = {} THEN st
    ELSE LET i == CHOOSE x \in todo : \A y \in todo \ {x} : LexLess(x, y)
             data == GetDomain(st.view, i)
             fail(msg) == [st EXCEPT !.ret = msg]
         IN  IF data = None THEN fail("not found in the database")
             ELSE IF ~CDomainData_isExpired(data, nHeight)
             THEN fail("is not actually expired")
             ELSE IF ~IsAvailable(st.view, data.prevout)
             THEN fail("name coin is not available")
             ELSE LET nameOp == st.view.coins[data.prevout[1]].vout[data.prevout[2]]
                      spent == Spend(st.view, data.prevout)
                  IN  IF ~isDomainOp(nameOp) \/ ~isAnyUpdate(nameOp)
                         \/ nameOp.domain # i
                      THEN fail("name coin to be expired is wrong script")
                      ELSE ExpireLoop_noPostmortem(nHeight,
                               [st EXCEPT !.view = spent.view,
                                          !.vexpired = Append(@, spent.undo)],
                               todo \ {i})

\* The second loop of ExpireDomains, over the names still to expire, in
\* the order of std::set<valtype>.
RECURSIVE ExpireLoop(_, _, _)
ExpireLoop(nHeight, st, todo) ==
    IF todo = {} THEN st
    ELSE LET i == CHOOSE x \in todo : \A y \in todo \ {x} : LexLess(x, y)
             data == GetDomain(st.view, i)
             fail(msg) == [st EXCEPT !.ret = msg]
         IN  IF data = None THEN fail("not found in the database")
             ELSE IF ~CDomainData_isExpired(data, nHeight)
             THEN fail("is not actually expired")
             ELSE IF nHeight = PostmortemHeight /\ i = PostmortemDomain
             THEN ExpireLoop(nHeight, st, todo \ {i})
             ELSE IF ~IsAvailable(st.view, data.prevout)
             THEN fail("name coin is not available")
             ELSE LET nameOp == st.view.coins[data.prevout[1]].vout[data.prevout[2]]
                      spent == Spend(st.view, data.prevout)
                  IN  IF ~isDomainOp(nameOp) \/ ~isAnyUpdate(nameOp)
                         \/ nameOp.domain # i
                      THEN fail("name coin to be expired is wrong script")
                      ELSE ExpireLoop(nHeight,
                               [st EXCEPT !.view = spent.view,
                                          !.vexpired = Append(@, spent.undo)],
                               todo \ {i})

\* An ExpireDomains that looks at the last height of the range only.
ExpireDomains_lastHeight(nHeight, v, vexpired) ==
    LET st0 == [ret |-> "ok", view |-> v, vexpired |-> vexpired, names |-> {}]
        expDepthOld == DomainExpirationDepth(nHeight - 1)
        expDepthNow == DomainExpirationDepth(nHeight)
        wraps == expDepthOld > nHeight
        expireFrom == nHeight - expDepthOld
        expireTo == nHeight - expDepthNow
        found == IF expireFrom <= expireTo THEN GetDomainsForHeight(v, expireTo)
                 ELSE {}
    IN  IF nHeight = 0 THEN st0
        ELSE IF expDepthNow > nHeight THEN st0
        ELSE IF wraps \/ ~(expireFrom <= expireTo + 1)
        THEN [st0 EXCEPT !.ret = "abort", !.view = ViewAbort(v)]
        ELSE ExpireLoop(nHeight, [st0 EXCEPT !.names = found], found)

\* An ExpireDomains without the return for a depth above the height: the
\* range is computed, and the assertion meets a wrapped bound.
ExpireDomains_noDepthReturn(nHeight, v, vexpired) ==
    LET st0 == [ret |-> "ok", view |-> v, vexpired |-> vexpired, names |-> {}]
        expDepthOld == DomainExpirationDepth(nHeight - 1)
        expDepthNow == DomainExpirationDepth(nHeight)
        expireFrom == nHeight - expDepthOld
        expireTo == nHeight - expDepthNow
        found == UNION {GetDomainsForHeight(v, h) : h \in expireFrom..expireTo}
    IN  IF nHeight = 0 THEN st0
        ELSE IF expDepthOld > nHeight \/ expDepthNow > nHeight
                \/ ~(expireFrom <= expireTo + 1)
        THEN [st0 EXCEPT !.ret = "abort", !.view = ViewAbort(v)]
        ELSE ExpireLoop(nHeight, [st0 EXCEPT !.names = found], found)

\* ExpireDomains: ret is "ok" for true, the error otherwise, "abort" for
\* the failed assertion.  The heights are unsigned: nHeight - expDepthOld
\* wraps to a huge expireFrom when expDepthOld > nHeight, and then the
\* assertion fails (expireTo does not wrap, as expDepthNow <= nHeight).
ExpireDomains(nHeight, v, vexpired) ==
    LET st0 == [ret |-> "ok", view |-> v, vexpired |-> vexpired, names |-> {}]
        expDepthOld == DomainExpirationDepth(nHeight - 1)
        expDepthNow == DomainExpirationDepth(nHeight)
        wraps == expDepthOld > nHeight
        expireFrom == nHeight - expDepthOld
        expireTo == nHeight - expDepthNow
        found == UNION {GetDomainsForHeight(v, h) : h \in expireFrom..expireTo}
    IN  IF nHeight = 0 THEN st0
        ELSE IF expDepthNow > nHeight THEN st0
        ELSE IF wraps \/ ~(expireFrom <= expireTo + 1)
        THEN [st0 EXCEPT !.ret = "abort", !.view = ViewAbort(v)]
        ELSE ExpireLoop(nHeight, [st0 EXCEPT !.names = found], found)

\* An unexpire loop that checks nothing and puts no coin back.
UnexpireLoop_noCoinUndo(nHeight, vexpired, st, k, clean) ==
    [st EXCEPT !.names = {vexpired[j].txout.domain : j \in 1..k}]

\* An unexpire loop that passes over the entries that are no domain
\* any-update coins.
RECURSIVE UnexpireLoop_skipOthers(_, _, _, _, _)
UnexpireLoop_skipOthers(nHeight, vexpired, st, k, clean) ==
    IF k = 0 THEN st
    ELSE LET nameOp == vexpired[k].txout
             name == nameOp.domain
             data == GetDomain(st.view, name)
             fail(msg) == [st EXCEPT !.ret = msg]
         IN  IF ~isDomainOp(nameOp) \/ ~isAnyUpdate(nameOp)
             THEN UnexpireLoop_skipOthers(nHeight, vexpired, st, k - 1, clean)
             ELSE IF name \in st.names THEN fail("unexpired twice")
             ELSE IF data = None
             THEN [fail("no data for name to be unexpired")
                      EXCEPT !.names = @ \cup {name}]
             ELSE IF ~CDomainData_isExpired(data, nHeight)
                     \/ CDomainData_isExpired(data, nHeight - 1)
             THEN [fail("not expired or already expired before")
                      EXCEPT !.names = @ \cup {name}]
             ELSE LET r == ApplyTxInUndo(vexpired[k], st.view, data.prevout, clean)
                      st1 == [st EXCEPT !.names = @ \cup {name}, !.view = r.view]
                  IN  IF ~r.ret
                      THEN [st1 EXCEPT !.ret = "failed to undo name coin spending"]
                      ELSE UnexpireLoop_skipOthers(nHeight, vexpired, st1, k - 1,
                                                   clean)

\* The loop of UnexpireDomains over undo.vexpired, backwards from entry k.
RECURSIVE UnexpireLoop(_, _, _, _, _)
UnexpireLoop(nHeight, vexpired, st, k, clean) ==
    IF k = 0 THEN st
    ELSE LET nameOp == vexpired[k].txout
             name == nameOp.domain
             data == GetDomain(st.view, name)
             fail(msg) == [st EXCEPT !.ret = msg]
         IN  IF ~isDomainOp(nameOp) \/ ~isAnyUpdate(nameOp)
             THEN fail("wrong script to be unexpired")
             ELSE IF name \in st.names THEN fail("unexpired twice")
             ELSE IF data = None
             THEN [fail("no data for name to be unexpired")
                      EXCEPT !.names = @ \cup {name}]
             ELSE IF ~CDomainData_isExpired(data, nHeight)
                     \/ CDomainData_isExpired(data, nHeight - 1)
             THEN [fail("not expired or already expired before")
                      EXCEPT !.names = @ \cup {name}]
             ELSE LET r == ApplyTxInUndo(vexpired[k], st.view, data.prevout, clean)
                      st1 == [st EXCEPT !.names = @ \cup {name}, !.view = r.view]
                  IN  IF ~r.ret
                      THEN [st1 EXCEPT !.ret = "failed to undo name coin spending"]
                      ELSE UnexpireLoop(nHeight, vexpired, st1, k - 1, clean)

\* An UnexpireDomains that does not clear the caller's set first.
UnexpireDomains_noClear(nHeight, vexpired, v, namesIn, clean) ==
    LET st0 == [ret |-> "ok", view |-> v, names |-> namesIn]
    IN  IF nHeight = 0 THEN st0
        ELSE UnexpireLoop(nHeight, vexpired, st0, Len(vexpired), clean)

\* UnexpireDomains; namesIn is what the caller's set holds at the call.
UnexpireDomains(nHeight, vexpired, v, namesIn, clean) ==
    LET st0 == [ret |-> "ok", view |-> v, names |-> {}]
    IN  IF nHeight = 0 THEN st0
        ELSE UnexpireLoop(nHeight, vexpired, st0, Len(vexpired), clean)

EmptyUndo == [vdomainundo |-> <<>>, vexpired |-> <<>>]

\* The chain variables while no chain is worked on.
ChainUnused ==
    /\ view = EmptyView
    /\ blockUndo = EmptyUndo
    /\ chainHeight = 0
    /\ phase = "none"
    /\ chainRet = "ok"
    /\ names = {}
    /\ snapBlock = EmptyView
    /\ snapExpire = EmptyView
    /\ nextTx = 1
    /\ rules = DefaultRules
    /\ chainBlocks = <<>>

(***************************************************************************)
(* CheckDomainTransaction.                                                 *)
(***************************************************************************)
MAX_VALUE_LENGTH == 1023
MAX_DOMAIN_LENGTH == 255
MIN_FIRSTUPDATE_DEPTH == 12

\* A byte string of n bytes b.
Rep(b, n) == [i \in 1..n |-> b]

RECURSIVE SumBytes(_)
SumBytes(s) == IF s = <<>> THEN 0 ELSE s[1] + SumBytes(Tail(s))

\* Hash160 of a byte string: 20 bytes that its length and its bytes
\* determine.  Distinct strings may share a hash.
Hash160(s) == [i \in 1..20 |-> (Len(s) + i * SumBytes(s)) % 256]

\* A transaction output: the amount and the CDomainScript of its script.
CTxOut(nValue, op, hash, domain, rand, value, addr) ==
    [nValue |-> nValue, op |-> op, hash |-> hash, domain |-> domain,
     rand |-> rand, value |-> value, addr |-> addr]

\* A transaction to validate: version flag, inputs (outpoints), outputs
\* and its historic-bug type.
CTransaction(beyond, vin, vout, bug) ==
    [beyond |-> beyond, vin |-> vin, vout |-> vout, bug |-> bug]

\* An allowlist that matches no transaction.
IsHistoricBug_never(tx) == FALSE

\* Params ().IsHistoricBug (tx.GetHash (), nHeight, type): tx.bug is the
\* category the allowlist has for the transaction at the height of the call.
IsHistoricBug(tx) == tx.bug # "none"

\* rules->MinBeyondCoinAmount (nHeight)
MinBeyondCoinAmount(nHeight) == IF nHeight < 14 THEN 1 ELSE 2

\* The loop over tx.vin from input i on; domainIn is 0 for "none yet".
\* The output an input names is one of the coins' vout; a spent one has
\* an empty script.
RECURSIVE LocateDomainInput(_, _, _, _)
LocateDomainInput(tx, v, i, domainIn) ==
    IF i > Len(tx.vin) THEN [ret |-> "ok", domainIn |-> domainIn]
    ELSE IF tx.vin[i][1] \notin DOMAIN v.coins
    THEN [ret |-> "failed to fetch input coins", domainIn |-> domainIn]
    ELSE LET txout == v.coins[tx.vin[i][1]].vout[tx.vin[i][2]]
         IN  IF txout # None /\ isDomainOp(txout)
             THEN IF domainIn # 0
                  THEN [ret |-> "multiple domain inputs", domainIn |-> domainIn]
                  ELSE LocateDomainInput(tx, v, i + 1, i)
             ELSE LocateDomainInput(tx, v, i + 1, domainIn)

\* The loop over tx.vout from output i on.
RECURSIVE LocateDomainOutput(_, _, _)
LocateDomainOutput(tx, i, domainOut) ==
    IF i > Len(tx.vout) THEN [ret |-> "ok", domainOut |-> domainOut]
    ELSE IF isDomainOp(tx.vout[i])
    THEN IF domainOut # 0
         THEN [ret |-> "multiple domain outputs", domainOut |-> domainOut]
         ELSE LocateDomainOutput(tx, i + 1, i)
    ELSE LocateDomainOutput(tx, i + 1, domainOut)

\* A FIRSTUPDATE check that takes any salt when the names agree.
CheckFirstUpdateHash_nameOnly(domainOpOut, domainOpIn) ==
    IF Len(domainOpOut.rand) > 20 THEN "rand value is too large"
    ELSE "ok"

\* The salt and commitment checks of a FIRSTUPDATE.
CheckFirstUpdateHash(domainOpOut, domainOpIn) ==
    IF Len(domainOpOut.rand) > 20 THEN "rand value is too large"
    ELSE IF Hash160(domainOpOut.rand \o domainOpOut.domain) # domainOpIn.hash
    THEN "hash mismatch"
    ELSE "ok"

\* A maturity check one block short.
CheckFirstUpdateMaturity_short(coinsIn, nHeight, fMempool) ==
    IF fMempool THEN "ok"
    ELSE IF coinsIn.nHeight = MEMPOOL_HEIGHT THEN "abort"
    ELSE IF coinsIn.nHeight + MIN_FIRSTUPDATE_DEPTH - 1 > nHeight
    THEN "not mature"
    ELSE "ok"

\* The maturity check of a FIRSTUPDATE.
CheckFirstUpdateMaturity(coinsIn, nHeight, fMempool) ==
    IF fMempool THEN "ok"
    ELSE IF coinsIn.nHeight = MEMPOOL_HEIGHT THEN "abort"
    ELSE IF coinsIn.nHeight + MIN_FIRSTUPDATE_DEPTH > nHeight
    THEN "not mature"
    ELSE "ok"

\* A check of the registry that takes any existing domain for unexpired.
CheckFirstUpdateOldDomain_ignore(v, name, nHeight) == "ok"

\* The last check of a FIRSTUPDATE: the domain is not in the view, or is
\* expired there.
CheckFirstUpdateOldDomain(v, name, nHeight) ==
    IF GetDomain(v, name) = None THEN "ok"
    ELSE IF isExpired_asserts(nHeight) THEN "abort"
    ELSE IF ~CDomainData_isExpired(GetDomain(v, name), nHeight)
    THEN "on an unexpired name"
    ELSE "ok"

\* An UPDATE check that does not look at the previous height.
CheckUpdate_noExpiry(domainOpOut, domainOpIn, coinsIn, nHeight) ==
    IF ~isAnyUpdate(domainOpIn) THEN "with prev input that is no update"
    ELSE IF domainOpOut.domain # domainOpIn.domain THEN "name mismatch to prev tx"
    ELSE "ok"

\* The checks of an UPDATE.
CheckUpdate(domainOpOut, domainOpIn, coinsIn, nHeight) ==
    IF ~isAnyUpdate(domainOpIn) THEN "with prev input that is no update"
    ELSE IF domainOpOut.domain # domainOpIn.domain THEN "name mismatch to prev tx"
    ELSE IF isExpired_asserts(nHeight) THEN "abort"
    ELSE IF isExpired(coinsIn.nHeight, nHeight) THEN "on an expired name"
    ELSE "ok"

\* The checks of a FIRSTUPDATE, in the order of the code.
CheckFirstUpdate(domainOpOut, domainOpIn, coinsIn, nHeight, v, fMempool) ==
    IF domainOpIn.op # "OP_DOMAIN_NEW" THEN "with non-NEW prev tx"
    ELSE IF CheckFirstUpdateMaturity(coinsIn, nHeight, fMempool) # "ok"
    THEN CheckFirstUpdateMaturity(coinsIn, nHeight, fMempool)
    ELSE IF CheckFirstUpdateHash(domainOpOut, domainOpIn) # "ok"
    THEN CheckFirstUpdateHash(domainOpOut, domainOpIn)
    ELSE CheckFirstUpdateOldDomain(v, domainOpOut.domain, nHeight)

\* A check of NEW that takes a commitment of any length.
CheckNew_anyHash(domainOpOut, domainIn) ==
    IF domainIn # 0 THEN "NEW with previous domain input" ELSE "ok"

\* The checks of a NEW.
CheckNew(domainOpOut, domainIn) ==
    IF domainIn # 0 THEN "NEW with previous domain input"
    ELSE IF Len(domainOpOut.hash) # 20 THEN "NEW's hash has wrong size"
    ELSE "ok"

\* A shape check that lets a transaction without domain output through.
CheckShape_noOutputNeeded(tx, domainIn, domainOut) ==
    IF ~tx.beyond
    THEN IF domainIn # 0 THEN "non-Beyondcoin tx has domain inputs"
         ELSE IF domainOut # 0 THEN "non-Beyondcoin tx has domain outputs"
         ELSE "ok"
    ELSE IF domainOut = 0 THEN "ok"
    ELSE "rules"

\* A shape check that lets a transaction without the version flag spend
\* domain coins.
CheckShape_domainInputs(tx, domainIn, domainOut) ==
    IF ~tx.beyond
    THEN IF domainOut # 0 THEN "non-Beyondcoin tx has domain outputs"
         ELSE "ok"
    ELSE IF domainOut = 0 THEN "Beyondcoin tx has no domain outputs"
    ELSE "rules"

\* The checks on the flag of the transaction: "ok" and the failures end
\* the validation, "rules" goes on to the rules of the operation.
CheckShape(tx, domainIn, domainOut) ==
    IF ~tx.beyond
    THEN IF domainIn # 0 THEN "non-Beyondcoin tx has domain inputs"
         ELSE IF domainOut # 0 THEN "non-Beyondcoin tx has domain outputs"
         ELSE "ok"
    ELSE IF domainOut = 0 THEN "Beyondcoin tx has no domain outputs"
    ELSE "rules"

\* CheckDomainTransaction after the two loops.
CheckDomainRules(tx, nHeight, v, fMempool, domainIn, domainOut) ==
    IF CheckShape(tx, domainIn, domainOut) # "rules"
    THEN CheckShape(tx, domainIn, domainOut)
    ELSE LET domainOpOut == tx.vout[domainOut]
             coinsIn == v.coins[tx.vin[domainIn][1]]
             domainOpIn == coinsIn.vout[tx.vin[domainIn][2]]
         IN  IF domainOpOut.nValue < MinBeyondCoinAmount(nHeight)
             THEN "greedy domain"
             ELSE IF domainOpOut.op = "OP_DOMAIN_NEW"
             THEN CheckNew(domainOpOut, domainIn)
             ELSE IF domainIn = 0 THEN "update without previous domain input"
             ELSE IF Len(domainOpOut.domain) > MAX_DOMAIN_LENGTH
             THEN "domain too long"
             ELSE IF Len(domainOpOut.value) > MAX_VALUE_LENGTH
             THEN "value too long"
             ELSE IF domainOpOut.op = "OP_DOMAIN_UPDATE"
             THEN CheckUpdate(domainOpOut, domainOpIn, coinsIn, nHeight)
             ELSE CheckFirstUpdate(domainOpOut, domainOpIn, coinsIn, nHeight,
                                   v, fMempool)

\* CheckDomainTransaction: "ok" for true, "abort" for a failed assertion,
\* the message of the failure for false.
CheckDomainTransaction(tx, nHeight, v, fMempool) ==
    IF IsHistoricBug(tx) THEN "ok"
    ELSE LET locIn == LocateDomainInput(tx, v, 1, 0)
             locOut == LocateDomainOutput(tx, 1, 0)
         IN  IF locIn.ret # "ok" THEN locIn.ret
             ELSE IF locOut.ret # "ok" THEN locOut.ret
             ELSE CheckDomainRules(tx, nHeight, v, fMempool,
                                   locIn.domainIn, locOut.domainOut)

\* The failures CheckDomainTransaction returns through state.Invalid.
StateInvalidReturns ==
    {"multiple domain inputs", "multiple domain outputs",
     "non-Beyondcoin tx has domain inputs",
     "non-Beyondcoin tx has domain outputs",
     "Beyondcoin tx has no domain outputs", "greedy domain",
     "NEW with previous domain input", "NEW's hash has wrong size",
     "update without previous domain input", "domain too long",
     "value too long", "with prev input that is no update",
     "name mismatch to prev tx", "on an expired name",
     "with non-NEW prev tx", "not mature", "rand value is too large",
     "hash mismatch", "on an unexpired name"}

\* A validation that marks the state for every failure.
CheckDomainTransaction_state_always(ret) == ret \notin {"ok", "abort"}

\* The CValidationState after CheckDomainTransaction has returned ret, the
\* state being valid before: whether it is marked invalid.
CheckDomainTransaction_state(ret) == ret \in StateInvalidReturns

\* The variables of the flush and of the functions on keys while unused.
FnUnused ==
    /\ flushBase = CDomainCache_clear
    /\ fnCall = None
    /\ fnRet = None
    /\ historyData = <<>>

\* The variables of updateDomainsForHeight while it is not called.
UpdUnused ==
    /\ updCall = None
    /\ updRet = {}

\* The validation variables while no transaction is validated.
ValUnused ==
    /\ valCall = None
    /\ valRet = "ok"
    /\ valState = FALSE

(***************************************************************************)
(* SpecCache: the public mutators, called on either of two cache layers.   *)
(***************************************************************************)
Layers == {"cache", "child"}

Layer(w) == IF w = "cache" THEN cache ELSE child

\* One mutator call on layer w, leaving it in state new.
Mutate(w, op, new) ==
    /\ nOps < MaxOps
    /\ lastOp' = op
    /\ nOps' = nOps + 1
    /\ cache' = (IF w = "cache" THEN new ELSE cache)
    /\ child' = (IF w = "child" THEN new ELSE child)
    /\ UNCHANGED <<fDomainHistory, iterVars, poolVars, chainVars, valVars, updVars, fnVars>>

CacheSet ==
    \E w \in Layers, d \in CacheDomains, v \in DataVals :
        Mutate(w, "set", CDomainCache_set(Layer(w), d, v))

CacheRemove ==
    \E w \in Layers, d \in CacheDomains :
        Mutate(w, "remove", CDomainCache_remove(Layer(w), d))

\* setHistory asserts fDomainHistory.
CacheSetHistory ==
    \E w \in Layers, d \in CacheDomains, h \in Histories :
        /\ fDomainHistory
        /\ Mutate(w, "setHistory", CDomainCache_setHistory(Layer(w), d, h))

CacheAddExpireIndex ==
    \E w \in Layers, d \in CacheDomains, h \in 1..MaxIndexHeight :
        Mutate(w, "addExpireIndex", CDomainCache_addExpireIndex(Layer(w), d, h))

CacheRemoveExpireIndex ==
    \E w \in Layers, d \in CacheDomains, h \in 1..MaxIndexHeight :
        Mutate(w, "removeExpireIndex", CDomainCache_removeExpireIndex(Layer(w), d, h))

\* apply: flush one layer into the other (apply's setHistory asserts the
\* switch whenever the flushed layer holds history).
CacheApply ==
    \E w \in Layers :
        LET o == IF w = "cache" THEN child ELSE cache
        IN  /\ (o.history # EmptyMap => fDomainHistory)
            /\ Mutate(w, "apply", CDomainCache_apply(Layer(w), o))

CacheClear ==
    \E w \in Layers : Mutate(w, "clear", CDomainCache_clear)

InitCache ==
    /\ fDomainHistory \in BOOLEAN
    /\ cache = CDomainCache_clear
    /\ child = CDomainCache_clear
    /\ nOps = 0
    /\ lastOp = "init"
    /\ IterUnused
    /\ PoolUnused
    /\ ChainUnused
    /\ ValUnused
    /\ UpdUnused
    /\ FnUnused

NextCache ==
    \/ CacheSet
    \/ CacheRemove
    \/ CacheSetHistory
    \/ CacheAddExpireIndex
    \/ CacheRemoveExpireIndex
    \/ CacheApply
    \/ CacheClear

SpecCache == InitCache /\ [][NextCache]_vars

(***************************************************************************)
(* SpecIter: a merge iterator over a fixed cache and a fixed base store.   *)
(* iterateDomains constructs it (the constructor seeks to the start);      *)
(* the cache is not mutated while the iterator lives.                      *)
(***************************************************************************)
\* Records of the base store and of the cache: told apart by their value.
BaseRecord == CDomainData(1, 1, <<1, 0>>, 1)

CacheRecord == CDomainData(2, 1, <<1, 0>>, 1)

\* Arguments of seek: the empty key, the keys, and two keys held nowhere.
SeekStarts == {EmptyDomain} \cup Domains \cup {<<1, 2>>, <<1, 1, 1>>}

SetIter(st) ==
    /\ basePos' = st.basePos
    /\ baseHasMore' = st.baseHasMore
    /\ baseDomain' = st.baseDomain
    /\ baseData' = st.baseData
    /\ cacheIter' = st.cacheIter

IterSeek ==
    \E start \in SeekStarts :
        /\ SetIter(CCacheDomainIterator_seek(cache, base, IterState, start))
        /\ seekStart' = start
        /\ out' = <<>>
        /\ iterRet' = TRUE
        /\ lastOp' = "seek"
        /\ UNCHANGED <<cacheVars, base, poolVars, chainVars, valVars, updVars, fnVars>>

IterNext ==
    LET r == CCacheDomainIterator_next(cache, base, IterState)
    IN  /\ SetIter(r.st)
        /\ iterRet' = r.ret
        /\ out' = (IF r.ret THEN Append(out, [domain |-> r.domain, data |-> r.data])
                   ELSE out)
        /\ lastOp' = "next"
        /\ UNCHANGED <<cacheVars, base, seekStart, poolVars, chainVars, valVars, updVars, fnVars>>

InitIter ==
    /\ fDomainHistory = FALSE
    /\ child = CDomainCache_clear
    /\ nOps = 0
    /\ lastOp = "init"
    /\ \E E \in SUBSET Domains : \E D \in SUBSET (Domains \ E) :
          cache = [CDomainCache_clear EXCEPT !.entries = [k \in E |-> CacheRecord],
                                             !.deleted = D]
    /\ \E B \in SUBSET Domains : base = [k \in B |-> BaseRecord]
    /\ seekStart = EmptyDomain
    /\ out = <<>>
    /\ iterRet = TRUE
    /\ PoolUnused
    /\ ChainUnused
    /\ ValUnused
    /\ UpdUnused
    /\ FnUnused
    /\ LET st == CCacheDomainIterator_seek(cache, base,
                    [basePos |-> 1, baseHasMore |-> FALSE, baseDomain |-> None,
                     baseData |-> None, cacheIter |-> 1], EmptyDomain)
       IN  /\ basePos = st.basePos
           /\ baseHasMore = st.baseHasMore
           /\ baseDomain = st.baseDomain
           /\ baseData = st.baseData
           /\ cacheIter = st.cacheIter

NextIter == IterSeek \/ IterNext

SpecIter == InitIter /\ [][NextIter]_vars

\* The keys at or after the seek position.
AtOrAfter(S, start) == {k \in S : ~DomainComparator(k, start)}

\* The merged view: the cache's entries, and the base entries that the cache
\* neither deletes nor overrides.
Merged(c, b, start) ==
    {[domain |-> k, data |-> c.entries[k]] : k \in AtOrAfter(DOMAIN c.entries, start)}
    \cup {[domain |-> k, data |-> b[k]] :
              k \in AtOrAfter((DOMAIN b) \ (c.deleted \cup DOMAIN c.entries), start)}

Range(s) == {s[i] : i \in 1..Len(s)}

(***************************************************************************)
(* C3: the keys returned by successive next () calls after a seek are      *)
(* strictly increasing in DomainComparator: sorted, none returned twice.   *)
(***************************************************************************)
C3_OutputStrictlyIncreasing ==
    \A i \in 1..(Len(out) - 1) :
        /\ Len(out[i].domain) <= Len(out[i + 1].domain)
        /\ Len(out[i].domain) = Len(out[i + 1].domain)
              => LexLess(out[i].domain, out[i + 1].domain)

\* C3's case: both sources hold a key that both next () calls passed, and
\* entries of the base and of the cache were returned, a one-byte key that
\* is lexicographically larger before a two-byte key.
C3_Witness ==
    /\ Len(out) >= 3
    /\ \E i \in 1..Len(out) : out[i].data = BaseRecord
    /\ \E i \in 1..Len(out) :
          out[i].data = CacheRecord /\ out[i].domain \in DOMAIN base
    /\ \E i \in 1..(Len(out) - 1) :
          out[i].domain = <<2>> /\ out[i + 1].domain = <<1, 1>>

(***************************************************************************)
(* C4: after seek (start) the pairs returned are exactly the cache entries *)
(* with key >= start (with the cache's record) and the base entries with   *)
(* key >= start that the cache neither marks deleted nor holds itself.     *)
(***************************************************************************)
C4_OutputIsMergedView ==
    /\ Range(out) \subseteq Merged(cache, base, seekStart)
    /\ ~iterRet => Range(out) = Merged(cache, base, seekStart)

\* C4's case: the iteration from a start past the first key is finished; the
\* base held a deleted key, an overridden key and a key of its own there.
C4_Witness ==
    /\ ~iterRet
    /\ seekStart # EmptyDomain
    /\ \E k \in AtOrAfter(DOMAIN base, seekStart) : k \in cache.deleted
    /\ \E k \in AtOrAfter(DOMAIN base, seekStart) : k \in DOMAIN cache.entries
    /\ \E i \in 1..Len(out) : out[i].data = BaseRecord
    /\ \E k \in DOMAIN base : DomainComparator(k, seekStart)

(***************************************************************************)
(* C1: after any sequence of set, remove, apply and clear calls (and the   *)
(* other mutators) from the empty cache, no domain key is at once in       *)
(* entries and in deleted, in either layer.                                *)
(***************************************************************************)
C1_EntriesDeletedDisjoint ==
    \A w \in Layers : (DOMAIN Layer(w).entries) \cap Layer(w).deleted = {}

\* C1's case: an apply has just flushed a child that holds both an entry
\* and a deletion into the parent, which now holds both as well.
C1_Witness ==
    /\ lastOp = "apply"
    /\ \E d1, d2 \in CacheDomains :
          /\ d1 # d2
          /\ d1 \in DOMAIN child.entries /\ d1 \in DOMAIN cache.entries
          /\ d2 \in child.deleted /\ d2 \in cache.deleted

(***************************************************************************)
(* C2: in every reachable cache, if entries and deleted are both empty     *)
(* then history and expireIndex are empty too, so that empty () returns    *)
(* without tripping its assertion.                                         *)
(***************************************************************************)
C2_EmptyNeverAborts ==
    \A w \in Layers : CDomainCache_empty(Layer(w)) # "abort"

(***************************************************************************)
(* SpecPool: the mempool registry.  A transaction enters the pool only     *)
(* after checkTx returned true for it.                                     *)
(***************************************************************************)
SetPool(p, op, arg) ==
    /\ mapTx' = p.mapTx
    /\ mapDomainRegs' = p.mapDomainRegs
    /\ mapDomainUpdates' = p.mapDomainUpdates
    /\ mapDomainNews' = p.mapDomainNews
    /\ removed' = p.removed
    /\ poolAbort' = p.abort
    /\ lastOp' = op
    /\ checkRet' = NoCheck
    /\ poolArg' = arg
    /\ UNCHANGED <<cacheVars, iterVars, chainVars, valVars, updVars, fnVars>>

PoolCheckTx ==
    \E hash \in TxIds :
        /\ ~poolAbort
        /\ checkRet' = [tx |-> hash, ret |-> CDomainMemPool_checkTx(PoolState, hash)]
        /\ lastOp' = "checkTx"
        /\ removed' = {}
        /\ poolArg' = hash
        /\ UNCHANGED <<cacheVars, iterVars, chainVars, valVars, updVars, fnVars, mapTx, poolMaps, poolAbort>>

\* Admission: shape validated, inputs available, checkTx true, then
\* CTxMemPool::addUnchecked, which calls the registry's addUnchecked.
PoolAccept ==
    \E hash \in TxIds :
        /\ ~poolAbort
        /\ hash \notin mapTx
        /\ ValidShape(Txs[hash])
        /\ Txs[hash].parent = 0 \/ Txs[hash].parent \in mapTx
        /\ CDomainMemPool_checkTx(PoolState, hash)
        /\ LET p == CDomainMemPool_addUnchecked(PoolState, hash)
           IN  SetPool([p EXCEPT !.mapTx = p.mapTx \cup {hash}], "addUnchecked",
                       hash)

\* Removal of a pooled transaction: confirmed in a block (not recursive) or
\* dropped with its descendants.
PoolRemove ==
    \E hash \in mapTx, fRecursive \in BOOLEAN :
        /\ ~poolAbort
        /\ SetPool(CTxMemPool_remove(PoolState, hash, fRecursive), "remove", hash)

PoolRemoveConflicts ==
    \E hash \in TxIds :
        /\ ~poolAbort
        /\ SetPool(CDomainMemPool_removeConflicts(PoolState, hash), "removeConflicts",
                   hash)

PoolRemoveUnexpireConflicts ==
    \E unexpired \in SUBSET PoolDomains :
        /\ ~poolAbort
        /\ SetPool(CDomainMemPool_removeUnexpireConflicts(PoolState, unexpired),
                   "removeUnexpireConflicts", unexpired)

PoolRemoveExpireConflicts ==
    \E expired \in SUBSET PoolDomains :
        /\ ~poolAbort
        /\ SetPool(CDomainMemPool_removeExpireConflicts(PoolState, expired),
                   "removeExpireConflicts", expired)

PoolClear ==
    /\ ~poolAbort
    /\ SetPool(CDomainMemPool_clear(PoolState), "clear", None)

InitPool ==
    /\ fDomainHistory = FALSE
    /\ cache = CDomainCache_clear
    /\ child = CDomainCache_clear
    /\ nOps = 0
    /\ lastOp = "init"
    /\ IterUnused
    /\ PoolUnused
    /\ ChainUnused
    /\ ValUnused
    /\ UpdUnused
    /\ FnUnused

NextPool ==
    \/ PoolCheckTx
    \/ PoolAccept
    \/ PoolRemove
    \/ PoolRemoveConflicts
    \/ PoolRemoveUnexpireConflicts
    \/ PoolRemoveExpireConflicts
    \/ PoolClear

SpecPool == InitPool /\ [][NextPool]_vars

\* The pooled transactions whose entry registers / updates domain d.
PooledRegs(d) ==
    {t \in mapTx : isDomainRegistration(Txs[t]) /\ getDomain(Txs[t]) = d}

PooledUpdates(d) ==
    {t \in mapTx : isDomainUpdate(Txs[t]) /\ getDomain(Txs[t]) = d}

(***************************************************************************)
(* C8: with every admission gated by checkTx, each domain has at most one  *)
(* pooled registration and at most one pooled update, and the registration *)
(* and update maps hold exactly the domains of the pooled transactions,    *)
(* each mapped to that transaction's id (and no assertion has failed).     *)
(***************************************************************************)
C8_RegistryMatchesPool ==
    /\ ~poolAbort
    /\ \A d \in PoolDomains :
          /\ Cardinality(PooledRegs(d)) <= 1
          /\ Cardinality(PooledUpdates(d)) <= 1
          /\ d \in DOMAIN mapDomainRegs <=> PooledRegs(d) # {}
          /\ d \in DOMAIN mapDomainUpdates <=> PooledUpdates(d) # {}
          /\ \A t \in PooledRegs(d) : mapDomainRegs[d] = t
          /\ \A t \in PooledUpdates(d) : mapDomainUpdates[d] = t
    /\ DOMAIN mapDomainRegs \subseteq PoolDomains
    /\ DOMAIN mapDomainUpdates \subseteq PoolDomains

\* C8's case: an expiry eviction has just removed a pooled update, while a
\* registration and an update of the other domain stay pooled.
C8_Witness ==
    /\ lastOp = "removeExpireConflicts"
    /\ removed # {}
    /\ mapDomainRegs # EmptyMap
    /\ mapDomainUpdates # EmptyMap

\* Transaction u has an output that is a FIRSTUPDATE of domain d.
CarriesFirstUpdate(u, d) ==
    \E i \in DOMAIN Txs[u].vout : Txs[u].vout[i] = ScriptFirstUpdate(d)

\* Output script of transaction hash conflicts with the registry.
OutputConflicts(p, hash, script) ==
    \/ /\ script.op = "OP_DOMAIN_NEW"
       /\ script.hash \in DOMAIN p.mapDomainNews
       /\ p.mapDomainNews[script.hash] # hash
    \/ /\ script.op = "OP_DOMAIN_FIRSTUPDATE"
       /\ script.domain \in DOMAIN p.mapDomainRegs
    \/ /\ script.op = "OP_DOMAIN_UPDATE"
       /\ script.domain \in DOMAIN p.mapDomainUpdates

(***************************************************************************)
(* C9 as claimed: while a FIRSTUPDATE for d is pooled, checkTx returns     *)
(* false for any other transaction carrying a FIRSTUPDATE for d; once the  *)
(* first entry is removed, checkTx returns true for that transaction.      *)
(***************************************************************************)
C9_Original ==
    [][/\ \A d \in DOMAIN mapDomainRegs' :
            \A u \in TxIds \ {mapDomainRegs'[d]} :
                CarriesFirstUpdate(u, d)
                    => ~CDomainMemPool_checkTx(PoolState, u)'
       /\ \A d \in DOMAIN mapDomainRegs : mapDomainRegs[d] \in removed' =>
            \A u \in TxIds \ {mapDomainRegs[d]} :
                CarriesFirstUpdate(u, d)
                    => CDomainMemPool_checkTx(PoolState, u)'
      ]_vars

(***************************************************************************)
(* C9 as amended: while a FIRSTUPDATE for d is pooled, checkTx returns     *)
(* false for any other domain-bearing transaction carrying a FIRSTUPDATE   *)
(* for d; once the first entry is removed, checkTx returns true for that   *)
(* transaction unless another of its domain outputs conflicts.             *)
(***************************************************************************)
C9_SecondRegistrationRejectedWhilePooled ==
    [][/\ \A d \in DOMAIN mapDomainRegs' :
            \A u \in TxIds \ {mapDomainRegs'[d]} :
                Txs[u].beyond /\ CarriesFirstUpdate(u, d)
                    => ~CDomainMemPool_checkTx(PoolState, u)'
       /\ \A d \in DOMAIN mapDomainRegs : mapDomainRegs[d] \in removed' =>
            \A u \in TxIds \ {mapDomainRegs[d]} :
                /\ Txs[u].beyond
                /\ CarriesFirstUpdate(u, d)
                /\ \A i \in DOMAIN Txs[u].vout :
                      Txs[u].vout[i] # ScriptFirstUpdate(d)
                          => ~OutputConflicts(PoolState, u, Txs[u].vout[i])'
                => CDomainMemPool_checkTx(PoolState, u)'
      ]_vars

\* C9's case: the pooled registration 1 of the first domain has just been
\* removed, and checkTx now accepts the second registration 2 of it.
C9_Witness ==
    /\ lastOp = "remove"
    /\ removed = {1}
    /\ CDomainMemPool_checkTx(PoolState, 2)
    /\ mapTx # {}

\* Transaction hash is domain-bearing and one of its domain outputs
\* conflicts with the registry.
Conflicts(p, hash) ==
    /\ Txs[hash].beyond
    /\ \E i \in DOMAIN Txs[hash].vout :
          /\ isDomainOp(Txs[hash].vout[i])
          /\ OutputConflicts(p, hash, Txs[hash].vout[i])

(***************************************************************************)
(* C10: checkTx returns false iff the transaction is domain-bearing and at *)
(* least one of its domain outputs conflicts (a NEW whose hash is mapped   *)
(* to another transaction id, a FIRSTUPDATE of a domain with a pending     *)
(* registration, an UPDATE of a domain with a pending update); and a       *)
(* checkTx call changes no registry map.                                   *)
(***************************************************************************)
C10_CheckTxIffConflict ==
    [][/\ \A hash \in TxIds :
            CDomainMemPool_checkTx(PoolState, hash)' = ~Conflicts(PoolState, hash)'
       /\ lastOp' = "checkTx" =>
            /\ UNCHANGED <<mapTx, poolMaps>>
            /\ checkRet'.ret = ~Conflicts(PoolState, checkRet'.tx)
      ]_vars

\* C10's case: checkTx has just rejected the transaction with two UPDATE
\* outputs, whose first output does not conflict and whose second does,
\* while the pooled NEW transaction 5 finds its own hash mapped to itself.
C10_Witness ==
    /\ lastOp = "checkTx"
    /\ checkRet = [tx |-> 11, ret |-> FALSE]
    /\ PoolD1 \notin DOMAIN mapDomainUpdates
    /\ 5 \in mapTx
    /\ CDomainMemPool_checkTx(PoolState, 5)

(***************************************************************************)
(* SpecChain: blocks are connected one after the other (the transactions   *)
(* of a block, then ExpireDomains); the block at the tip can be            *)
(* disconnected again (UnexpireDomains, then the domain undo entries in    *)
(* reverse).                                                               *)
(***************************************************************************)
\* Height of the last block connected.
MaxChainHeight == 3

\* Number of transactions connected in one run.
MaxChainTx == 2

\* The transactions offered to the blocks.  ApplyDomainTransaction checks
\* nothing, so they need not be valid.
ChainTxs ==
    {ChainTx(TRUE, <<ScriptFirstUpdate(d)>>, FALSE, "none") : d \in ChainDomains}
    \cup {ChainTx(TRUE, <<ScriptUpdate(d)>>, sp, "none") :
              d \in ChainDomains, sp \in BOOLEAN}
    \cup {ChainTx(TRUE, <<ScriptFirstUpdate(PoolD1), ScriptUpdate(PoolD2)>>,
                  FALSE, "none"),
          ChainTx(TRUE, <<ScriptOther, ScriptUpdate(PoolD1)>>, TRUE, "none"),
          ChainTx(TRUE, <<ScriptUpdate(PoolD1), ScriptUpdate(PoolD1)>>, TRUE,
                  "none"),
          ChainTx(TRUE, <<ScriptNew(PoolHash)>>, FALSE, "none"),
          ChainTx(FALSE, <<ScriptFirstUpdate(PoolD1)>>, FALSE, "none")}
    \cup {ChainTx(TRUE, <<ScriptFirstUpdate(PoolD1)>>, FALSE, b) :
              b \in {"BUG_FULLY_APPLY", "BUG_IN_UTXO", "BUG_FULLY_IGNORE"}}

\* The coin update of a connected transaction: the coins of the domains its
\* UPDATE outputs name are spent if the transaction spends them, and its
\* outputs become coins of the block's height.
RECURSIVE SpendInputs(_, _, _)
SpendInputs(v, tx, i) ==
    IF i > Len(tx.vout) THEN v
    ELSE LET data == GetDomain(v, tx.vout[i].domain)
         IN  IF tx.vout[i].op = "OP_DOMAIN_UPDATE" /\ data # None
                /\ IsAvailable(v, data.prevout)
             THEN SpendInputs(Spend(v, data.prevout).view, tx, i + 1)
             ELSE SpendInputs(v, tx, i + 1)

UpdateCoins(tx, txHash, nHeight, v) ==
    LET v1 == IF tx.spendsPrev THEN SpendInputs(v, tx, 1) ELSE v
    IN  [v1 EXCEPT !.coins = MapPut(v1.coins, txHash, CCoins(tx.vout, nHeight))]

\* The domain undo entries of the block, applied last to first.
RECURSIVE ApplyDomainUndo(_, _, _)
ApplyDomainUndo(v, vdomainundo, k) ==
    IF k = 0 THEN v
    ELSE ApplyDomainUndo(CDomainTxUndo_apply(vdomainundo[k], v), vdomainundo, k - 1)

ChainFrame ==
    UNCHANGED <<cacheVars, iterVars, poolVars, valVars, updVars, fnVars, rules,
               chainBlocks>>

ChainApplyTx ==
    /\ phase = "open"
    /\ chainHeight > 0
    /\ nextTx <= MaxChainTx
    /\ \E tx \in ChainTxs :
          LET v1 == UpdateCoins(tx, nextTx, chainHeight, view)
              r == ApplyDomainTransaction(tx, nextTx, chainHeight, v1,
                                          blockUndo.vdomainundo)
          IN  /\ view' = r.view
              /\ blockUndo' = [blockUndo EXCEPT !.vdomainundo = r.vdomainundo]
    /\ nextTx' = nextTx + 1
    /\ lastOp' = "ApplyDomainTransaction"
    /\ UNCHANGED <<chainHeight, phase, chainRet, names, snapBlock, snapExpire>>
    /\ ChainFrame

ChainExpire ==
    /\ phase = "open"
    /\ LET r == ExpireDomains(chainHeight, view, blockUndo.vexpired)
       IN  /\ view' = r.view
           /\ blockUndo' = [blockUndo EXCEPT !.vexpired = r.vexpired]
           /\ names' = r.names
           /\ chainRet' = r.ret
           /\ phase' = IF r.ret = "ok" THEN "connected" ELSE "failed"
    /\ snapExpire' = view
    /\ lastOp' = "ExpireDomains"
    /\ UNCHANGED <<chainHeight, snapBlock, nextTx>>
    /\ ChainFrame

ChainNextBlock ==
    /\ phase = "connected"
    /\ chainHeight < MaxChainHeight
    /\ chainHeight' = chainHeight + 1
    /\ blockUndo' = EmptyUndo
    /\ snapBlock' = view
    /\ phase' = "open"
    /\ lastOp' = "ConnectBlock"
    /\ UNCHANGED <<view, chainRet, names, snapExpire, nextTx>>
    /\ ChainFrame

ChainFlush ==
    /\ phase = "connected"
    /\ view.cacheDomains # CDomainCache_clear
    /\ view' = Flush(view)
    /\ lastOp' = "Flush"
    /\ UNCHANGED <<blockUndo, chainHeight, phase, chainRet, names, snapBlock,
                   snapExpire, nextTx>>
    /\ ChainFrame

\* The caller passes a fresh set.
ChainUnexpire ==
    /\ phase = "connected"
    /\ \E clean \in BOOLEAN :
          LET r == UnexpireDomains(chainHeight, blockUndo.vexpired, view, {},
                                   clean)
          IN  /\ view' = r.view
              /\ names' = r.names
              /\ chainRet' = r.ret
              /\ phase' = IF r.ret = "ok" THEN "unexpired" ELSE "failed"
    /\ lastOp' = "UnexpireDomains"
    /\ UNCHANGED <<blockUndo, chainHeight, snapBlock, snapExpire, nextTx>>
    /\ ChainFrame

\* A second call of UnexpireDomains for the same block, with the set the
\* first call filled.
ChainUnexpireAgain ==
    /\ phase = "unexpired"
    /\ \E clean \in BOOLEAN :
          LET r == UnexpireDomains(chainHeight, blockUndo.vexpired, view, names,
                                   clean)
          IN  /\ view' = r.view
              /\ names' = r.names
              /\ chainRet' = r.ret
    /\ phase' = "unexpired again"
    /\ lastOp' = "UnexpireDomains again"
    /\ UNCHANGED <<blockUndo, chainHeight, snapBlock, snapExpire, nextTx>>
    /\ ChainFrame

ChainUndo ==
    /\ phase \in {"open", "unexpired"}
    /\ view' = ApplyDomainUndo(view, blockUndo.vdomainundo,
                               Len(blockUndo.vdomainundo))
    /\ phase' = "undone"
    /\ lastOp' = "undo"
    /\ UNCHANGED <<blockUndo, chainHeight, chainRet, names, snapBlock, snapExpire,
                   nextTx>>
    /\ ChainFrame

InitChain ==
    /\ fDomainHistory = FALSE
    /\ cache = CDomainCache_clear
    /\ child = CDomainCache_clear
    /\ nOps = 0
    /\ lastOp = "init"
    /\ IterUnused
    /\ PoolUnused
    /\ view = EmptyView
    /\ blockUndo = EmptyUndo
    /\ chainHeight = 0
    /\ phase = "open"
    /\ chainRet = "ok"
    /\ names = {}
    /\ snapBlock = EmptyView
    /\ snapExpire = EmptyView
    /\ nextTx = 1
    /\ rules = DefaultRules
    /\ chainBlocks = <<>>
    /\ ValUnused
    /\ UpdUnused
    /\ FnUnused

NextChain ==
    \/ ChainApplyTx
    \/ ChainExpire
    \/ ChainNextBlock
    \/ ChainFlush
    \/ ChainUnexpire
    \/ ChainUnexpireAgain
    \/ ChainUndo

SpecChain == InitChain /\ [][NextChain]_vars

\* The domain records and the coins of two views agree.
SameRecords(v, w) == \A d \in ChainDomains : GetDomain(v, d) = GetDomain(w, d)

(***************************************************************************)
(* C5: when ExpireDomains at height H has succeeded, UnexpireDomains at    *)
(* the same height with the recorded coin undo succeeds and leaves every   *)
(* coin and every domain record as before ExpireDomains.                   *)
(***************************************************************************)
C5_UnexpireRestoresView ==
    lastOp = "UnexpireDomains" =>
        /\ chainRet = "ok"
        /\ ~view.abort
        /\ view.coins = snapExpire.coins
        /\ SameRecords(view, snapExpire)

\* C5's case: two domains expired in one block, their coins spent, and
\* UnexpireDomains has put both back.
C5_Witness ==
    /\ lastOp = "UnexpireDomains"
    /\ chainRet = "ok"
    /\ Len(blockUndo.vexpired) = 2
    /\ names = ChainDomains
    /\ view.coins = snapExpire.coins
    /\ view.coins # EmptyMap

(***************************************************************************)
(* C6 as claimed: a second UnexpireDomains for the same block (same height *)
(* and undo data, after a first successful one) is rejected with the       *)
(* "unexpired twice" failure.                                              *)
(***************************************************************************)
C6_Original ==
    lastOp = "UnexpireDomains again" => chainRet = "unexpired twice"

(***************************************************************************)
(* C6 as amended: a second UnexpireDomains for the same block is never     *)
(* rejected as "unexpired twice"; without coin undo entries it succeeds    *)
(* and changes nothing, with such entries it succeeds or fails with        *)
(* "failed to undo name coin spending", as the generic coin undo decides.  *)
(***************************************************************************)
C6_SecondUnexpireNotRejectedAsTwice ==
    lastOp = "UnexpireDomains again" =>
        /\ chainRet # "unexpired twice"
        /\ blockUndo.vexpired = <<>> =>
              chainRet = "ok" /\ view.coins = snapExpire.coins
        /\ blockUndo.vexpired # <<>> =>
              chainRet \in {"ok", "failed to undo name coin spending"}
        /\ SameRecords(view, snapExpire)

\* C6's case: the second call has run on a block whose ExpireDomains had
\* expired a domain, and has failed in the coin undo.
C6_Witness ==
    /\ lastOp = "UnexpireDomains again"
    /\ blockUndo.vexpired # <<>>
    /\ chainRet = "failed to undo name coin spending"

(***************************************************************************)
(* C7: after any sequence of ApplyDomainTransaction calls, applying the    *)
(* recorded domain undo entries in reverse order of creation gives every   *)
(* domain the registry state it had before the first call: absent again,   *)
(* or its exact old record.                                                *)
(***************************************************************************)
C7_UndoRestoresRegistry ==
    lastOp = "undo" => ~view.abort /\ SameRecords(view, snapBlock)

\* C7's case: one block has updated an existing domain twice, and the undo
\* has run.
C7_Witness ==
    /\ lastOp = "undo"
    /\ Len(blockUndo.vdomainundo) = 2
    /\ blockUndo.vdomainundo[1].domain = blockUndo.vdomainundo[2].domain
    /\ ~blockUndo.vdomainundo[1].isNew
    /\ GetDomain(snapBlock, PoolD1) # None
    /\ SameRecords(view, snapBlock)

(***************************************************************************)
(* SpecValidate: CheckDomainTransaction on a view at the tip of a chain,   *)
(* or on that of the mempool, and the connection of one accepted           *)
(* transaction to the block that is validated.                             *)
(***************************************************************************)
\* The salts, names and values of the scripts.
Salt1 == <<2, 3>>
SaltSameHash == <<3, 2>>
Salt2 == <<6>>
SaltLong == Rep(0, 21)
DomainLong == Rep(3, MAX_DOMAIN_LENGTH + 1)
Value1 == <<1>>
Value2 == <<2, 2>>
ValueLong == Rep(1, MAX_VALUE_LENGTH + 1)

OutNew(hash, nValue) ==
    CTxOut(nValue, "OP_DOMAIN_NEW", hash, <<>>, <<>>, <<>>, 1)
OutFirstUpdate(rand, domain, value, nValue) ==
    CTxOut(nValue, "OP_DOMAIN_FIRSTUPDATE", <<>>, domain, rand, value, 1)
OutUpdate(domain, value, nValue) ==
    CTxOut(nValue, "OP_DOMAIN_UPDATE", <<>>, domain, <<>>, value, 1)
OutOther == CTxOut(2, "OP_NOP", <<>>, <<>>, <<>>, <<>>, 1)

\* The hashes of the coins of the view: three NEW (two salts and the long
\* one, all for PoolD1), the coins of the two domains, a coin without
\* domain, and a NEW that is in the mempool.
ValCoins ==
    [new1 |-> 101, new2 |-> 102, newLong |-> 103, d1 |-> 104, d2 |-> 105,
     other |-> 106, mempool |-> 107, missing |-> 108]
CoinNew1 == ValCoins.new1
CoinNew2 == ValCoins.new2
CoinNewLong == ValCoins.newLong
CoinD1 == ValCoins.d1
CoinD2 == ValCoins.d2
CoinOther == ValCoins.other
CoinMempool == ValCoins.mempool
CoinMissing == ValCoins.missing

\* The heights at which a transaction is validated, and the height of the
\* tip for each.
ValHeights == {13, 14, MEMPOOL_HEIGHT}
TipOf(nHeight) == IF nHeight = MEMPOOL_HEIGHT THEN 13 ELSE nHeight - 1

\* The view before the validation: the NEW coins are of height pNew; the
\* record of PoolD1 is absent (hD1 = 0) or of height hD1, its coin unspent
\* unless a block before the validated one has expired it; PoolD2 is of
\* the tip.
ValView(nHeight, pNew, hD1, opD1, mempool) ==
    LET h == TipOf(nHeight) + 1
        new(salt) == CCoins(<<OutNew(Hash160(salt \o PoolD1), 2)>>, pNew)
        d1 == IF opD1 = "OP_DOMAIN_UPDATE" THEN OutUpdate(PoolD1, Value1, 2)
              ELSE OutFirstUpdate(Salt1, PoolD1, Value1, 2)
        c0 == MapPut(MapPut(MapPut(MapPut(EmptyMap,
                  CoinNew1, new(Salt1)), CoinNew2, new(Salt2)),
                  CoinNewLong, new(SaltLong)),
                  CoinOther, CCoins(<<OutOther>>, 1))
        c1 == MapPut(c0, CoinD2, CCoins(<<OutUpdate(PoolD2, Value1, 2)>>, h - 1))
        c2 == IF hD1 # 0 /\ hD1 + DomainExpirationDepth(h - 1) > h - 1
              THEN MapPut(c1, CoinD1, CCoins(<<d1>>, hD1)) ELSE c1
        c3 == IF mempool
              THEN MapPut(c2, CoinMempool, CCoins(
                       <<OutNew(Hash160(Salt1 \o PoolD1), 2)>>, MEMPOOL_HEIGHT))
              ELSE c2
        r1 == MapPut(EmptyMap, PoolD2,
                     CDomainData_fromScript(h - 1, COutPoint(CoinD2, 1),
                                            OutUpdate(PoolD2, Value1, 2)))
        r2 == IF hD1 # 0
              THEN MapPut(r1, PoolD1,
                       CDomainData_fromScript(hD1, COutPoint(CoinD1, 1), d1))
              ELSE r1
    IN  [EmptyView EXCEPT
           !.coins = c3,
           !.dbDomains = r2,
           !.dbExpireIndex = {ExpireEntry(r2[d].nHeight, d) : d \in DOMAIN r2}]

\* The outputs of the transactions that are validated.
ValOutputs ==
    {<<>>, <<OutOther>>,
     <<OutNew(Hash160(Salt2 \o PoolD2), 2)>>,
     <<OutNew(Hash160(Salt2 \o PoolD2), 1)>>,
     <<OutNew(Rep(9, 19), 2)>>,
     <<OutNew(Rep(9, 21), 2)>>,
     <<OutOther, OutNew(Hash160(Salt2 \o PoolD2), 2)>>,
     <<OutNew(Hash160(Salt2 \o PoolD2), 2), OutUpdate(PoolD1, Value1, 2)>>,
     <<OutFirstUpdate(Salt1, PoolD1, Value1, 2)>>,
     <<OutFirstUpdate(Salt1, PoolD1, Value1, 1)>>,
     <<OutFirstUpdate(SaltSameHash, PoolD1, Value1, 2)>>,
     <<OutFirstUpdate(Salt2, PoolD1, Value1, 2)>>,
     <<OutFirstUpdate(SaltLong, PoolD1, Value1, 2)>>,
     <<OutFirstUpdate(Salt1, PoolD2, Value1, 2)>>,
     <<OutFirstUpdate(Salt1, DomainLong, Value1, 2)>>,
     <<OutFirstUpdate(Salt1, PoolD1, ValueLong, 2)>>,
     <<OutOther, OutFirstUpdate(Salt2, PoolD1, Value1, 2)>>,
     <<OutUpdate(PoolD1, Value1, 2)>>,
     <<CTxOut(2, "OP_DOMAIN_UPDATE", <<>>, PoolD1, <<>>, Value2, 2)>>,
     <<CTxOut(2, "OP_DOMAIN_FIRSTUPDATE", <<>>, PoolD1, Salt1, Value2, 2)>>,
     <<OutUpdate(PoolD1, Value1, 1)>>,
     <<OutUpdate(PoolD2, Value1, 2)>>,
     <<OutUpdate(DomainLong, Value1, 2)>>,
     <<OutUpdate(PoolD1, ValueLong, 2)>>,
     <<OutUpdate(PoolD1, Value1, 2), OutUpdate(PoolD2, Value1, 2)>>}

\* Their inputs: unspent outputs of the view, at most two.
ValInputs(v) ==
    LET one == {<<COutPoint(c, 1)>> : c \in DOMAIN v.coins}
        two == {<<COutPoint(c[1], 1), COutPoint(c[2], 1)>> :
                   c \in {<<CoinOther, CoinNew1>>, <<CoinNew1, CoinOther>>,
                          <<CoinNew1, CoinNew2>>, <<CoinNew2, CoinD1>>,
                          <<CoinD1, CoinD2>>, <<CoinOther, CoinD1>>}}
    IN  {<<>>} \cup one
        \cup {i \in two : \A k \in 1..2 : IsAvailable(v, i[k])}

\* The transactions that can be validated on the view.  No transaction is
\* a historic bug: the chain parameters register none.
ValTxs(v) ==
    {CTransaction(b, i, o, "none") :
        b \in BOOLEAN, i \in ValInputs(v), o \in ValOutputs}

\* The flags with which a view is validated: a view with coins of the
\* mempool is the mempool's.
ValFlags(v) == IF CoinMempool \in DOMAIN v.coins THEN {TRUE} ELSE BOOLEAN

\* One call of CheckDomainTransaction.  The call changes nothing in the
\* view, so the calls that follow one another on the same view are those
\* made on it first.
ValCheck ==
    /\ lastOp # "CheckDomainTransaction"
    /\ \E tx \in ValTxs(view), fMempool \in ValFlags(view) :
          /\ valCall' = [tx |-> tx, fMempool |-> fMempool]
          /\ valRet' = CheckDomainTransaction(tx, chainHeight, view, fMempool)
          /\ valState' = CheckDomainTransaction_state(
                             CheckDomainTransaction(tx, chainHeight, view, fMempool))
    /\ lastOp' = "CheckDomainTransaction"
    /\ UNCHANGED <<cacheVars, iterVars, poolVars, chainVars, updVars, fnVars>>

\* The inputs of a connected transaction are spent and its outputs become
\* coins of the block's height.
RECURSIVE ValSpendInputs(_, _, _)
ValSpendInputs(v, tx, i) ==
    IF i > Len(tx.vin) THEN v
    ELSE ValSpendInputs(Spend(v, tx.vin[i]).view, tx, i + 1)

ValUpdateCoins(tx, txHash, nHeight, v) ==
    LET v1 == ValSpendInputs(v, tx, 1)
    IN  IF tx.vout = <<>> THEN v1
        ELSE [v1 EXCEPT !.coins = MapPut(v1.coins, txHash,
                                         CCoins(tx.vout, nHeight))]

\* The transaction just accepted for the block is connected: its coins
\* are updated and ApplyDomainTransaction runs.
ValApply ==
    /\ phase = "open"
    /\ valCall # None
    /\ valRet = "ok"
    /\ ~valCall.fMempool
    /\ chainHeight # MEMPOOL_HEIGHT
    /\ LET v1 == ValUpdateCoins(valCall.tx, nextTx, chainHeight, view)
           r == ApplyDomainTransaction(valCall.tx, nextTx, chainHeight, v1,
                                       blockUndo.vdomainundo)
       IN  /\ view' = r.view
           /\ blockUndo' = [blockUndo EXCEPT !.vdomainundo = r.vdomainundo]
    /\ nextTx' = nextTx + 1
    /\ phase' = "applied"
    /\ lastOp' = "ApplyDomainTransaction"
    /\ UNCHANGED <<chainHeight, chainRet, names, snapBlock, snapExpire>>
    /\ ChainFrame

InitValidate ==
    /\ fDomainHistory = FALSE
    /\ cache = CDomainCache_clear
    /\ child = CDomainCache_clear
    /\ nOps = 0
    /\ lastOp = "init"
    /\ IterUnused
    /\ PoolUnused
    /\ rules = DefaultRules
    /\ chainBlocks = <<>>
    /\ \E nHeight \in ValHeights, pNew \in {1, 2},
          hD1 \in {0, 9, 10, 11, 13}, opD1 \in {"OP_DOMAIN_FIRSTUPDATE", "OP_DOMAIN_UPDATE"},
          mempool \in BOOLEAN :
          /\ hD1 <= TipOf(nHeight) + 1
          /\ hD1 = 0 => opD1 = "OP_DOMAIN_UPDATE"
          /\ mempool => nHeight \in {TipOf(nHeight) + 1, MEMPOOL_HEIGHT}
          /\ chainHeight = nHeight
          /\ view = ValView(nHeight, pNew, hD1, opD1, mempool)
    /\ blockUndo = EmptyUndo
    /\ phase = "open"
    /\ chainRet = "ok"
    /\ names = {}
    /\ snapBlock = EmptyView
    /\ snapExpire = EmptyView
    /\ nextTx = 1
    /\ ValUnused
    /\ UpdUnused
    /\ FnUnused

NextValidate ==
    \/ ValCheck
    \/ ValApply

SpecValidate == InitValidate /\ [][NextValidate]_vars

\* The last step was a call of CheckDomainTransaction: valCall and valRet
\* are its input and its outcome on the present view.
Checked == lastOp = "CheckDomainTransaction"

\* The output of the view that input k of the call's transaction names,
\* and the height of its coins.
InputOut(k) == view.coins[valCall.tx.vin[k][1]].vout[valCall.tx.vin[k][2]]
InputHeight(k) == view.coins[valCall.tx.vin[k][1]].nHeight

\* The domain inputs and the domain outputs of the call's transaction.
DomainInputs ==
    {k \in 1..Len(valCall.tx.vin) :
        InputOut(k).op \in {"OP_DOMAIN_NEW", "OP_DOMAIN_FIRSTUPDATE",
                            "OP_DOMAIN_UPDATE"}}
DomainOuts ==
    {k \in 1..Len(valCall.tx.vout) :
        valCall.tx.vout[k].op \in {"OP_DOMAIN_NEW", "OP_DOMAIN_FIRSTUPDATE",
                                   "OP_DOMAIN_UPDATE"}}
TheDomainInput == CHOOSE k \in DomainInputs : TRUE
TheDomainOut == valCall.tx.vout[CHOOSE k \in DomainOuts : TRUE]

\* The call's transaction is domain-bearing with one domain output, of the
\* operation op and of the minimum value, and short enough a name and value.
SingleOutput(op) ==
    /\ valCall.tx.beyond
    /\ Cardinality(DomainOuts) = 1
    /\ Cardinality(DomainInputs) <= 1
    /\ TheDomainOut.op = op
    /\ TheDomainOut.nValue >= MinBeyondCoinAmount(chainHeight)
    /\ Len(TheDomainOut.domain) <= 255
    /\ Len(TheDomainOut.value) <= 1023

\* The record of the output's domain is absent from the view or expired
\* at the target height.
FreeInView ==
    \/ GetDomain(view, TheDomainOut.domain) = None
    \/ /\ chainHeight # MEMPOOL_HEIGHT
       /\ GetDomain(view, TheDomainOut.domain).nHeight
              + DomainExpirationDepth(chainHeight) <= chainHeight

\* The salt of the output is of at most 20 bytes and hashes, with the
\* name, to the commitment of the NEW input.
SaltCommitted ==
    /\ Len(TheDomainOut.rand) <= 20
    /\ Hash160(TheDomainOut.rand \o TheDomainOut.domain)
           = InputOut(TheDomainInput).hash

\* A FIRSTUPDATE that spends a NEW.
FirstUpdateOfNew ==
    /\ SingleOutput("OP_DOMAIN_FIRSTUPDATE")
    /\ Cardinality(DomainInputs) = 1
    /\ InputOut(TheDomainInput).op = "OP_DOMAIN_NEW"

(***************************************************************************)
(* C11: a FIRSTUPDATE that satisfies every other rule and spends a NEW     *)
(* mined at height p is accepted without the mempool flag at height h iff  *)
(* p + 12 <= h; with the mempool flag it is accepted whatever p is.        *)
(***************************************************************************)
C11_FirstUpdateMaturity ==
    (Checked /\ FirstUpdateOfNew /\ SaltCommitted /\ FreeInView) =>
        IF valCall.fMempool THEN valRet = "ok"
        ELSE (valRet = "ok") <=> (InputHeight(TheDomainInput) + 12 <= chainHeight)

\* C11's case: the NEW is exactly 12 blocks deep and the FIRSTUPDATE has
\* been accepted without the mempool flag.
C11_Witness ==
    /\ Checked /\ FirstUpdateOfNew /\ SaltCommitted /\ FreeInView
    /\ ~valCall.fMempool
    /\ InputHeight(TheDomainInput) + 12 = chainHeight
    /\ valRet = "ok"

\* The maturity rule lets the FIRSTUPDATE through.
MatureOrMempool ==
    \/ valCall.fMempool
    \/ InputHeight(TheDomainInput) + 12 <= chainHeight

(***************************************************************************)
(* C12: a FIRSTUPDATE that reveals salt s and name n passes the hash rule  *)
(* iff hash160(s ++ n) is the commitment of the NEW it spends: with every  *)
(* other rule satisfied it is accepted iff the hashes agree and the salt   *)
(* has at most 20 bytes; with a hash that differs, or with a salt of more  *)
(* than 20 bytes whatever its hash, it is rejected.                        *)
(***************************************************************************)
C12_FirstUpdateHash ==
    (Checked /\ FirstUpdateOfNew) =>
        /\ (MatureOrMempool /\ FreeInView) =>
              ((valRet = "ok") <=> SaltCommitted)
        /\ Hash160(TheDomainOut.rand \o TheDomainOut.domain)
               # InputOut(TheDomainInput).hash
              => valRet \notin {"ok", "abort"}
        /\ Len(TheDomainOut.rand) > 20 => valRet \notin {"ok", "abort"}

\* C12's case: a salt other than the committed one, of a different hash,
\* has been rejected for its hash on a mature NEW.
C12_Witness ==
    /\ Checked /\ FirstUpdateOfNew /\ MatureOrMempool /\ FreeInView
    /\ Len(TheDomainOut.rand) <= 20
    /\ Hash160(TheDomainOut.rand \o TheDomainOut.domain)
           # InputOut(TheDomainInput).hash
    /\ valRet = "hash mismatch"

\* A domain-bearing transaction whose one domain output is a FIRSTUPDATE.
FirstUpdateCall ==
    /\ valCall.tx.beyond
    /\ Cardinality(DomainOuts) = 1
    /\ Cardinality(DomainInputs) <= 1
    /\ TheDomainOut.op = "OP_DOMAIN_FIRSTUPDATE"

AppliedFirstUpdates ==
    IF phase = "applied" /\ 1 \in DOMAIN view.coins
    THEN {view.coins[1].vout[k].domain :
             k \in {j \in DOMAIN view.coins[1].vout :
                       view.coins[1].vout[j].op = "OP_DOMAIN_FIRSTUPDATE"}}
    ELSE {}

(***************************************************************************)
(* C14: within one block, once a FIRSTUPDATE for a domain has been         *)
(* validated and applied through ApplyDomainTransaction, every further     *)
(* FIRSTUPDATE for that domain that is validated against the resulting     *)
(* view at the same height is rejected.                                    *)
(***************************************************************************)
C14_SecondFirstUpdateRejected ==
    (Checked /\ FirstUpdateCall /\ TheDomainOut.domain \in AppliedFirstUpdates)
        => valRet \notin {"ok", "abort"}

\* C14's case: a second FIRSTUPDATE for the domain, on another mature NEW
\* with its own committed salt, has been rejected after the first was
\* applied.
C14_Witness ==
    /\ Checked /\ FirstUpdateOfNew /\ SaltCommitted /\ MatureOrMempool
    /\ TheDomainOut.domain \in AppliedFirstUpdates
    /\ blockUndo.vdomainundo # <<>>
    /\ valRet = "on an unexpired name"

C16_ShapeRules ==
    Checked =>
        /\ (Cardinality(DomainInputs) > 1 \/ Cardinality(DomainOuts) > 1)
              => valRet \notin {"ok", "abort"}
        /\ ~valCall.tx.beyond =>
              /\ valRet # "abort"
              /\ (valRet = "ok") <=> (DomainInputs = {} /\ DomainOuts = {})
        /\ (valCall.tx.beyond /\ DomainOuts = {})
              => valRet \notin {"ok", "abort"}

\* C16's case: a domain-bearing transaction that spends a domain coin and
\* has no domain output has been rejected.
C16_Witness ==
    /\ Checked
    /\ valCall.tx.beyond
    /\ Cardinality(DomainInputs) = 1
    /\ valCall.tx.vout # <<>>
    /\ DomainOuts = {}
    /\ valRet = "Beyondcoin tx has no domain outputs"

\* The view with all its domain records taken away.
WithoutRecords(v) ==
    [v EXCEPT !.dbDomains = EmptyMap, !.dbExpireIndex = {},
              !.cacheDomains = CDomainCache_clear]

(***************************************************************************)
(* C17: a domain-bearing transaction whose single domain output is a NEW   *)
(* of at least the minimum value is accepted iff it has no domain input    *)
(* and its hash has exactly 20 bytes; the outcome is the same on the view  *)
(* without its domain records.                                             *)
(***************************************************************************)
C17_NewRule ==
    (/\ Checked
     /\ valCall.tx.beyond
     /\ Cardinality(DomainOuts) = 1
     /\ TheDomainOut.op = "OP_DOMAIN_NEW"
     /\ TheDomainOut.nValue >= MinBeyondCoinAmount(chainHeight))
        => /\ valRet # "abort"
           /\ (valRet = "ok") <=>
                 (DomainInputs = {} /\ Len(TheDomainOut.hash) = 20)
           /\ valRet = CheckDomainTransaction(valCall.tx, chainHeight,
                           WithoutRecords(view), valCall.fMempool)

\* C17's case: a NEW with a 20-byte hash and no domain input has been
\* accepted on a view that holds records of both domains.
C17_Witness ==
    /\ Checked
    /\ valCall.tx.beyond
    /\ Cardinality(DomainOuts) = 1
    /\ TheDomainOut.op = "OP_DOMAIN_NEW"
    /\ Len(TheDomainOut.hash) = 20
    /\ valCall.tx.vin # <<>>
    /\ DomainInputs = {}
    /\ GetDomain(view, PoolD1) # None
    /\ GetDomain(view, PoolD2) # None
    /\ valRet = "ok"

(***************************************************************************)
(* C18 as claimed: CheckDomainTransaction never aborts on its input; for   *)
(* every transaction, view, flag and target height its interface allows,   *)
(* nHeight == MEMPOOL_HEIGHT included, it ends with an accept or a reject. *)
(***************************************************************************)
C18_NeverAborts ==
    Checked => valRet # "abort"

\* The keys an expire index can hold in SpecCache.
IndexKeys ==
    {ExpireEntry(h, d) : h \in 1..MaxIndexHeight, d \in CacheDomains}

\* The step has stored b for key k in the expireIndex of layer w and has
\* left every other key of that index as it was.
StoresFlag(w, k, b) ==
    LET old == (IF w = "cache" THEN cache ELSE child).expireIndex
        new == (IF w = "cache" THEN cache' ELSE child').expireIndex
    IN  /\ DOMAIN new = DOMAIN old \cup {k}
        /\ new[k] = b
        /\ \A x \in DOMAIN old \ {k} : new[x] = old[x]

\* The step has applied the expireIndex of the other layer to that of
\* layer w: every key of the other layer has the other layer's flag.
AppliesIndex(w) ==
    LET old == (IF w = "cache" THEN cache ELSE child).expireIndex
        new == (IF w = "cache" THEN cache' ELSE child').expireIndex
        other == (IF w = "cache" THEN child ELSE cache).expireIndex
    IN  /\ (IF w = "cache" THEN child' = child ELSE cache' = cache)
        /\ DOMAIN new = DOMAIN old \cup DOMAIN other
        /\ \A x \in DOMAIN other : new[x] = other[x]
        /\ \A x \in DOMAIN old \ DOMAIN other : new[x] = old[x]

(***************************************************************************)
(* C19: the last addExpireIndex or removeExpireIndex call for a key        *)
(* determines the boolean stored for it: add stores true and remove        *)
(* stores false for (h, d), whatever was pending, so add followed by       *)
(* remove leaves (h, d) -> false; and apply gives every key of the child   *)
(* the child's boolean in the parent, whatever the parent held for it.     *)
(***************************************************************************)
C19_LastIndexCallWins ==
    [][/\ lastOp' = "addExpireIndex" =>
              \E w \in Layers, k \in IndexKeys : StoresFlag(w, k, TRUE)
       /\ lastOp' = "removeExpireIndex" =>
              \E w \in Layers, k \in IndexKeys : StoresFlag(w, k, FALSE)
       /\ lastOp' = "apply" => \E w \in Layers : AppliesIndex(w)]_vars

\* C19's case: the child holds (h, d) -> false, and an apply has just
\* stored false for (h, d) in the parent too, at the end of the four calls
\* add in the parent, add and remove in the child, apply.
C19_Witness ==
    /\ lastOp = "apply"
    /\ nOps = 4
    /\ \E k \in IndexKeys :
          /\ child.expireIndex = MapPut(EmptyMap, k, FALSE)
          /\ cache.expireIndex = MapPut(EmptyMap, k, FALSE)
          /\ child.entries = EmptyMap /\ cache.entries = EmptyMap
          /\ child.deleted = {} /\ cache.deleted = {}

(***************************************************************************)
(* SpecIndex: addExpireIndex and removeExpireIndex calls on one cache, for *)
(* keys of several heights, and updateDomainsForHeight on the result.      *)
(***************************************************************************)
IndexHeights == 1..(MaxIndexHeight + 1)

\* One index call, leaving the cache in state new.
IndexMutate(op, new) ==
    /\ nOps < MaxOps
    /\ lastOp' = op
    /\ nOps' = nOps + 1
    /\ cache' = new
    /\ updCall' = None
    /\ updRet' = {}
    /\ UNCHANGED <<fDomainHistory, child, iterVars, poolVars, chainVars, valVars, fnVars>>

IndexAdd ==
    \E d \in CacheDomains, h \in IndexHeights :
        IndexMutate("addExpireIndex", CDomainCache_addExpireIndex(cache, d, h))

IndexRemove ==
    \E d \in CacheDomains, h \in IndexHeights :
        IndexMutate("removeExpireIndex", CDomainCache_removeExpireIndex(cache, d, h))

\* updateDomainsForHeight is const: the cache stays as it is, and a call
\* repeated on it gives what the first gave.
IndexUpdate ==
    /\ lastOp # "updateDomainsForHeight"
    /\ \E h \in IndexHeights, domains \in SUBSET CacheDomains :
          /\ updCall' = [nHeight |-> h, domains |-> domains]
          /\ updRet' = CDomainCache_updateDomainsForHeight(cache, h, domains)
    /\ lastOp' = "updateDomainsForHeight"
    /\ UNCHANGED <<cacheVars, iterVars, poolVars, chainVars, valVars, fnVars>>

InitIndex ==
    /\ fDomainHistory = FALSE
    /\ cache = CDomainCache_clear
    /\ child = CDomainCache_clear
    /\ nOps = 0
    /\ lastOp = "init"
    /\ IterUnused
    /\ PoolUnused
    /\ ChainUnused
    /\ ValUnused
    /\ UpdUnused
    /\ FnUnused

NextIndex ==
    \/ IndexAdd
    \/ IndexRemove
    \/ IndexUpdate

SpecIndex == InitIndex /\ [][NextIndex]_vars

\* The heights, up to h, of the pending changes of the cache for domain d.
PendingUpTo(d, h) ==
    {x \in 1..h : ExpireEntry(x, d) \in DOMAIN cache.expireIndex}

\* The greatest of a non-empty set of heights.
Highest(hs) == CHOOSE x \in hs : \A y \in hs : y <= x

(***************************************************************************)
(* C20 as claimed: updateDomainsForHeight applies every pending change     *)
(* whose key height is <= the given height, in ascending key order (so     *)
(* that for each domain the change of the greatest such height is the one  *)
(* that stays), true inserting and false erasing, and nothing else.        *)
(***************************************************************************)
C20_Original ==
    lastOp = "updateDomainsForHeight" =>
        \A d \in CacheDomains :
            d \in updRet <=>
                IF PendingUpTo(d, updCall.nHeight) = {}
                THEN d \in updCall.domains
                ELSE cache.expireIndex[
                         ExpireEntry(Highest(PendingUpTo(d, updCall.nHeight)), d)]

(***************************************************************************)
(* C20 as amended: updateDomainsForHeight applies exactly the pending      *)
(* changes whose key height equals the given height: the domain of a true  *)
(* entry of that height is in the set, the domain of a false entry of that *)
(* height is not, and every other domain is in the set iff it was before;  *)
(* changes of lower or greater heights are not applied.                    *)
(***************************************************************************)
C20_AppliesExactlyTheHeight ==
    lastOp = "updateDomainsForHeight" =>
        \A d \in CacheDomains :
            d \in updRet <=>
                IF ExpireEntry(updCall.nHeight, d) \in DOMAIN cache.expireIndex
                THEN cache.expireIndex[ExpireEntry(updCall.nHeight, d)]
                ELSE d \in updCall.domains

\* C20's case: the call for height 2 has inserted the domain of a true
\* entry of height 2 and has left alone a domain whose only pending change
\* is a false entry of height 1.
C20_Witness ==
    /\ lastOp = "updateDomainsForHeight"
    /\ updCall.nHeight = 2
    /\ \E d1, d2 \in CacheDomains :
          /\ d1 # d2
          /\ ExpireEntry(2, d1) \in DOMAIN cache.expireIndex
          /\ cache.expireIndex[ExpireEntry(2, d1)]
          /\ d1 \notin updCall.domains /\ d1 \in updRet
          /\ ExpireEntry(1, d2) \in DOMAIN cache.expireIndex
          /\ ~cache.expireIndex[ExpireEntry(1, d2)]
          /\ ExpireEntry(2, d2) \notin DOMAIN cache.expireIndex
          /\ d2 \in updCall.domains /\ d2 \in updRet

(***************************************************************************)
(* SpecFlush: a parent cache P is filled, then a sequence S of set,        *)
(* remove, addExpireIndex and removeExpireIndex calls runs on an empty     *)
(* child and, call by call, on a copy of P (cache); at the end the child   *)
(* is applied to P itself (flushBase).                                     *)
(***************************************************************************)
FlushFrame == UNCHANGED <<fDomainHistory, iterVars, poolVars, chainVars, valVars,
                          updVars, fnCall, fnRet, historyData>>

\* A call on the parent, before the child is written to.
FlushFillParent ==
    /\ nOps < MaxOps
    /\ lastOp \in {"init", "fill"}
    /\ \E k \in 1..4, d \in CacheDomains, v \in DataVals, h \in 1..MaxIndexHeight :
          LET new == CASE k = 1 -> CDomainCache_set(flushBase, d, v)
                       [] k = 2 -> CDomainCache_remove(flushBase, d)
                       [] k = 3 -> CDomainCache_addExpireIndex(flushBase, d, h)
                       [] k = 4 -> CDomainCache_removeExpireIndex(flushBase, d, h)
          IN  /\ flushBase' = new
              /\ cache' = new
    /\ nOps' = nOps + 1
    /\ lastOp' = "fill"
    /\ UNCHANGED child
    /\ FlushFrame

\* A call of S: on the child, and directly on the copy of the parent.
FlushCall ==
    /\ nOps < MaxOps
    /\ lastOp # "apply"
    /\ \E k \in 1..4, d \in CacheDomains, v \in DataVals, h \in 1..MaxIndexHeight :
          LET f(c) == CASE k = 1 -> CDomainCache_set(c, d, v)
                        [] k = 2 -> CDomainCache_remove(c, d)
                        [] k = 3 -> CDomainCache_addExpireIndex(c, d, h)
                        [] k = 4 -> CDomainCache_removeExpireIndex(c, d, h)
          IN  /\ child' = f(child)
              /\ cache' = f(cache)
    /\ nOps' = nOps + 1
    /\ lastOp' = "call"
    /\ UNCHANGED flushBase
    /\ FlushFrame

\* P.apply (child)
FlushApply ==
    /\ lastOp # "apply"
    /\ flushBase' = CDomainCache_apply(flushBase, child)
    /\ lastOp' = "apply"
    /\ UNCHANGED <<cache, child, nOps>>
    /\ FlushFrame

InitFlush ==
    /\ fDomainHistory = FALSE
    /\ cache = CDomainCache_clear
    /\ child = CDomainCache_clear
    /\ nOps = 0
    /\ lastOp = "init"
    /\ IterUnused
    /\ PoolUnused
    /\ ChainUnused
    /\ ValUnused
    /\ UpdUnused
    /\ FnUnused

NextFlush ==
    \/ FlushFillParent
    \/ FlushCall
    \/ FlushApply

SpecFlush == InitFlush /\ [][NextFlush]_vars

(***************************************************************************)
(* C21: running a sequence of set, remove, addExpireIndex and              *)
(* removeExpireIndex calls on an empty child and then applying the child   *)
(* to a parent gives the parent the entries, deleted and expireIndex that  *)
(* running the sequence directly on the parent gives.                      *)
(***************************************************************************)
C21_FlushEqualsDirect ==
    lastOp = "apply" =>
        /\ flushBase.entries = cache.entries
        /\ flushBase.deleted = cache.deleted
        /\ flushBase.expireIndex = cache.expireIndex

\* C21's case: the parent held an entry and a pending index change; the
\* child has removed the one and reversed the other, and has been applied.
C21_Witness ==
    /\ lastOp = "apply"
    /\ \E d \in CacheDomains, k \in DOMAIN child.expireIndex :
          /\ d \in child.deleted
          /\ d \in flushBase.deleted
          /\ d \notin DOMAIN flushBase.entries
          /\ ~child.expireIndex[k]
          /\ ~flushBase.expireIndex[k]
    /\ nOps = 4

(***************************************************************************)
(* SpecOrder: DomainComparator on three keys.                              *)
(***************************************************************************)
MaxKeyLen == 2

\* The bytes of the keys, and the keys of up to MaxKeyLen bytes.
KeyBytes == {0, 1, 255}
OrderKeys == UNION {[1..n -> KeyBytes] : n \in 0..MaxKeyLen}

OrderCompare ==
    /\ lastOp = "init"
    /\ fnRet' = [ab |-> DomainComparator(fnCall.a, fnCall.b),
                 ba |-> DomainComparator(fnCall.b, fnCall.a),
                 bc |-> DomainComparator(fnCall.b, fnCall.c),
                 ac |-> DomainComparator(fnCall.a, fnCall.c),
                 aa |-> DomainComparator(fnCall.a, fnCall.a)]
    /\ lastOp' = "DomainComparator"
    /\ UNCHANGED <<cacheVars, iterVars, poolVars, chainVars, valVars, updVars,
                   flushBase, fnCall, historyData>>

InitOrder ==
    /\ fDomainHistory = FALSE
    /\ cache = CDomainCache_clear
    /\ child = CDomainCache_clear
    /\ nOps = 0
    /\ lastOp = "init"
    /\ IterUnused
    /\ PoolUnused
    /\ ChainUnused
    /\ ValUnused
    /\ UpdUnused
    /\ flushBase = CDomainCache_clear
    /\ historyData = <<>>
    /\ fnCall \in [a : OrderKeys, b : OrderKeys, c : OrderKeys]
    /\ fnRet = None

NextOrder == OrderCompare

SpecOrder == InitOrder /\ [][NextOrder]_vars

\* a and b have the same length and a has the smaller byte at the first
\* position where they differ.
SmallerAtFirstDifference(a, b) ==
    /\ Len(a) = Len(b)
    /\ \E i \in 1..Len(a) :
          /\ a[i] < b[i]
          /\ \A j \in 1..(i - 1) : a[j] = b[j]

(***************************************************************************)
(* C22: DomainComparator is a strict total order on byte sequences: no key *)
(* precedes itself, of two distinct keys exactly one precedes the other,   *)
(* and the relation is transitive; a shorter key precedes a longer one     *)
(* whatever their bytes, and keys of equal length are ordered              *)
(* lexicographically by bytes.                                             *)
(***************************************************************************)
C22_DomainOrdering ==
    lastOp = "DomainComparator" =>
        /\ ~fnRet.aa
        /\ fnCall.a = fnCall.b => ~fnRet.ab /\ ~fnRet.ba
        /\ fnCall.a # fnCall.b => (fnRet.ab <=> ~fnRet.ba)
        /\ (fnRet.ab /\ fnRet.bc) => fnRet.ac
        /\ Len(fnCall.a) < Len(fnCall.b) => fnRet.ab
        /\ Len(fnCall.a) = Len(fnCall.b) =>
              (fnRet.ab <=> SmallerAtFirstDifference(fnCall.a, fnCall.b))

\* C22's case: the shorter key has the greater bytes and precedes all the
\* same; the two longer keys differ in their second byte only.
C22_Witness ==
    /\ lastOp = "DomainComparator"
    /\ fnCall.a = <<255>>
    /\ fnCall.b = <<0, 1>>
    /\ fnCall.c = <<0, 255>>
    /\ fnRet.ab /\ fnRet.bc /\ fnRet.ac /\ ~fnRet.ba

(***************************************************************************)
(* SpecKey: ExpireEntry::Serialize and Unserialize on two keys.  A 32-bit  *)
(* unsigned value is the record of its two 16-bit halves, hi and lo.       *)
(***************************************************************************)
Uint32(hi, lo) == [hi |-> hi, lo |-> lo]

\* h1 < h2 for two 32-bit unsigned values.
Uint32_less(x, y) == x.hi < y.hi \/ (x.hi = y.hi /\ x.lo < y.lo)

\* The four bytes of a 32-bit value, least significant first.
BytesLE(x) == <<x.lo % 256, x.lo \div 256, x.hi % 256, x.hi \div 256>>

\* The 32-bit value of four bytes, least significant first.
FromBytesLE(b) == Uint32(b[4] * 256 + b[3], b[2] * 256 + b[1])

\* An htobe32 that does not swap.
htobe32_noSwap(x) == x

\* htobe32 and be32toh on a little-endian host: the bytes are swapped.
htobe32(x) ==
    LET b == BytesLE(x) IN FromBytesLE(<<b[4], b[3], b[2], b[1]>>)

be32toh(x) ==
    LET b == BytesLE(x) IN FromBytesLE(<<b[4], b[3], b[2], b[1]>>)

\* ::Serialize of a uint32_t: its bytes, least significant first.
Serialize_uint32(x) == BytesLE(x)

\* ::Serialize of a valtype of fewer than 253 bytes: the size in one byte,
\* then the bytes.
Serialize_valtype(v) == <<Len(v)>> \o v

\* ExpireEntry::Serialize
ExpireEntry_Serialize(e) ==
    Serialize_uint32(htobe32(e.nHeight)) \o Serialize_valtype(e.domain)

\* ExpireEntry::Unserialize
ExpireEntry_Unserialize(s) ==
    LET nHeightFlipped == FromBytesLE(SubSeq(s, 1, 4))
        size == s[5]
        domain == SubSeq(s, 6, 5 + size)
    IN  ExpireEntry(be32toh(nHeightFlipped), domain)

\* The halves of the heights, and the domains of the keys.
KeyHalves == {0, 1, 255, 256, 65535}
KeyHeights == {Uint32(hi, lo) : hi \in KeyHalves, lo \in KeyHalves}
KeyDomains == {<<>>, <<0>>, <<255>>, <<1, 0>>}

KeySerialize ==
    /\ lastOp = "init"
    /\ fnRet' = [s1 |-> ExpireEntry_Serialize(fnCall.k1),
                 s2 |-> ExpireEntry_Serialize(fnCall.k2),
                 u1 |-> ExpireEntry_Unserialize(ExpireEntry_Serialize(fnCall.k1))]
    /\ lastOp' = "Serialize"
    /\ UNCHANGED <<cacheVars, iterVars, poolVars, chainVars, valVars, updVars,
                   flushBase, fnCall, historyData>>

InitKey ==
    /\ fDomainHistory = FALSE
    /\ cache = CDomainCache_clear
    /\ child = CDomainCache_clear
    /\ nOps = 0
    /\ lastOp = "init"
    /\ IterUnused
    /\ PoolUnused
    /\ ChainUnused
    /\ ValUnused
    /\ UpdUnused
    /\ flushBase = CDomainCache_clear
    /\ historyData = <<>>
    /\ \E h1 \in KeyHeights, h2 \in KeyHeights, d1 \in KeyDomains, d2 \in KeyDomains :
          fnCall = [k1 |-> ExpireEntry(h1, d1), k2 |-> ExpireEntry(h2, d2)]
    /\ fnRet = None

NextKey == KeySerialize

SpecKey == InitKey /\ [][NextKey]_vars

(***************************************************************************)
(* C23: for heights h1 < h2 and any two domains, the serialized key of     *)
(* (h1, d1) is byte-wise lexicographically less than that of (h2, d2):     *)
(* the four height bytes come most significant first; and unserializing a  *)
(* serialized key gives the key back.                                      *)
(***************************************************************************)
C23_SerializedOrder ==
    lastOp = "Serialize" =>
        /\ Uint32_less(fnCall.k1.nHeight, fnCall.k2.nHeight)
              => LexLess(fnRet.s1, fnRet.s2)
        /\ SubSeq(fnRet.s1, 1, 4) =
              <<fnCall.k1.nHeight.hi \div 256, fnCall.k1.nHeight.hi % 256,
                fnCall.k1.nHeight.lo \div 256, fnCall.k1.nHeight.lo % 256>>
        /\ fnRet.u1 = fnCall.k1

\* C23's case: the lower height has the greater low byte and the longer,
\* greater domain, and its key is the smaller one all the same.
C23_Witness ==
    /\ lastOp = "Serialize"
    /\ fnCall.k1 = ExpireEntry(Uint32(0, 255), <<255>>)
    /\ fnCall.k2 = ExpireEntry(Uint32(0, 256), <<>>)
    /\ fnRet.s1 = <<0, 0, 0, 255, 1, 255>>
    /\ fnRet.s2 = <<0, 0, 1, 0, 0>>
    /\ fnRet.u1 = fnCall.k1

\* The any-update outputs for domain d of the transaction that ValApply
\* connects.
UpdatesOf(d) ==
    {i \in 1..Len(valCall.tx.vout) :
        /\ valCall.tx.vout[i].op \in {"OP_DOMAIN_FIRSTUPDATE", "OP_DOMAIN_UPDATE"}
        /\ valCall.tx.vout[i].domain = d}

(***************************************************************************)
(* C24: after ApplyDomainTransaction of an accepted domain-bearing         *)
(* transaction T at height h whose output i is a FIRSTUPDATE or UPDATE for *)
(* domain d with value v, the view returns for d the record of value v,    *)
(* height h, update outpoint (T, i) and the address of the output script;  *)
(* the record of every other domain is as before, so a NEW output changes  *)
(* no record.                                                              *)
(***************************************************************************)
C24_ApplyWritesRecord ==
    [][lastOp' = "ApplyDomainTransaction" =>
          \A d \in PoolDomains :
              IF valCall.tx.beyond /\ UpdatesOf(d) # {}
              THEN \E i \in UpdatesOf(d) :
                      GetDomain(view', d) =
                          [value |-> valCall.tx.vout[i].value,
                           nHeight |-> chainHeight,
                           prevout |-> <<nextTx, i>>,
                           addr |-> valCall.tx.vout[i].addr]
              ELSE GetDomain(view', d) = GetDomain(view, d)]_vars

\* C24's case: a NEW of height 1 and its FIRSTUPDATE, accepted and applied
\* at height 13 as the first output of transaction 1, with value Value2
\* and address 2.
C24_Witness ==
    /\ lastOp = "ApplyDomainTransaction"
    /\ phase = "applied"
    /\ chainHeight = 13
    /\ Len(valCall.tx.vout) = 1
    /\ valCall.tx.vout[1].op = "OP_DOMAIN_FIRSTUPDATE"
    /\ GetDomain(view, PoolD1) =
          [value |-> Value2, nHeight |-> 13, prevout |-> <<1, 1>>, addr |-> 2]
    /\ GetDomain(view, PoolD2) # None
    /\ GetDomain(view, PoolD2).prevout = <<CoinD2, 1>>

\* Transaction u has an output that is a DOMAIN_NEW with hash c.
CarriesNew(u, c) ==
    \E i \in DOMAIN Txs[u].vout : Txs[u].vout[i] = ScriptNew(c)

\* The DOMAIN_NEW hashes mapped before the step, and the one the step's
\* addUnchecked adds.
KeptNews ==
    DOMAIN mapDomainNews \cup
        (IF lastOp' = "addUnchecked" /\ isDomainNew(Txs[poolArg'])
         THEN {getDomainNewHash(Txs[poolArg'])} ELSE {})

\* The pool after the step.
PoolStateAfter ==
    [mapTx |-> mapTx', mapDomainRegs |-> mapDomainRegs',
     mapDomainUpdates |-> mapDomainUpdates', mapDomainNews |-> mapDomainNews',
     removed |-> {}, abort |-> poolAbort']

\* The transaction hash c is (or is being) mapped to.
NewOwner(c) ==
    IF c \in DOMAIN mapDomainNews THEN mapDomainNews[c] ELSE poolArg'

(***************************************************************************)
(* C25 as claimed: once a NEW transaction T with hash c was added with     *)
(* addUnchecked, every later step other than clear leaves the pool in a    *)
(* state where checkTx rejects every other transaction that carries a NEW  *)
(* with hash c, and accepts T.                                             *)
(***************************************************************************)
C25_Original ==
    [][lastOp' # "clear" =>
          \A c \in KeptNews :
              /\ CDomainMemPool_checkTx(PoolStateAfter, NewOwner(c))
              /\ \A u \in TxIds \ {NewOwner(c)} :
                    CarriesNew(u, c) => ~CDomainMemPool_checkTx(PoolStateAfter, u)
      ]_vars

(***************************************************************************)
(* C25 as amended: once a NEW transaction T with hash c was added with     *)
(* addUnchecked, every later step other than clear (remove and the         *)
(* evictions included) keeps c mapped to T, so checkTx rejects every other *)
(* domain-bearing transaction that carries a NEW with hash c, and accepts  *)
(* T.                                                                      *)
(***************************************************************************)
C25_NewCommitmentKept ==
    [][lastOp' # "clear" =>
          \A c \in KeptNews :
              /\ c \in DOMAIN mapDomainNews'
              /\ mapDomainNews'[c] = NewOwner(c)
              /\ CDomainMemPool_checkTx(PoolStateAfter, NewOwner(c))
              /\ \A u \in TxIds \ {NewOwner(c)} :
                    Txs[u].beyond /\ CarriesNew(u, c)
                        => ~CDomainMemPool_checkTx(PoolStateAfter, u)
      ]_vars

\* C25's case: the NEW transaction 5 has just been removed from the pool;
\* its hash is still mapped to it, and checkTx has nothing else against the
\* other NEW transaction, 6.
C25_Witness ==
    /\ lastOp = "remove"
    /\ poolArg = 5
    /\ 5 \notin mapTx
    /\ mapDomainNews = MapPut(EmptyMap, PoolHash, 5)
    /\ ~CDomainMemPool_checkTx(PoolState, 6)
    /\ CDomainMemPool_checkTx(PoolState, 5)

\* The domains transaction u carries a FIRSTUPDATE for.
FirstUpdatesOf(u) == {d \in PoolDomains : CarriesFirstUpdate(u, d)}

\* The pool and the registry are the same after the step.
PoolUntouched ==
    /\ mapTx' = mapTx
    /\ mapDomainRegs' = mapDomainRegs
    /\ mapDomainUpdates' = mapDomainUpdates
    /\ mapDomainNews' = mapDomainNews
    /\ removed' = {}

(***************************************************************************)
(* C26: after removeConflicts(tx) for a domain-bearing transaction tx that *)
(* performs a FIRSTUPDATE on domain d, no pooled transaction registers d   *)
(* and the transaction that registered d is reported in removed and gone   *)
(* from the pool; if tx is not domain-bearing or carries no FIRSTUPDATE,   *)
(* the registry and the pool are unchanged and nothing is reported.        *)
(***************************************************************************)
C26_RemoveConflicts ==
    [][lastOp' = "removeConflicts" =>
          IF Txs[poolArg'].beyond /\ FirstUpdatesOf(poolArg') # {}
          THEN \A d \in FirstUpdatesOf(poolArg') :
                  /\ ~registersDomain(PoolStateAfter, d)
                  /\ PooledRegs(d)' = {}
                  /\ registersDomain(PoolState, d) =>
                        /\ mapDomainRegs[d] \in removed'
                        /\ mapDomainRegs[d] \notin mapTx'
          ELSE PoolUntouched]_vars

\* C26's case: transaction 2, a FIRSTUPDATE of PoolD1, was confirmed while
\* transaction 1 registered PoolD1 in the pool and transaction 3 spent it:
\* both are evicted.
C26_Witness ==
    /\ lastOp = "removeConflicts"
    /\ poolArg = 2
    /\ removed = {1, 3}
    /\ ~registersDomain(PoolState, PoolD1)
    /\ mapTx # {}

\* The pooled transactions that update / register a domain of D before the
\* step.
UpdatersOf(D) == {mapDomainUpdates[d] : d \in D \cap DOMAIN mapDomainUpdates}

RegistrarsOf(D) == {mapDomainRegs[d] : d \in D \cap DOMAIN mapDomainRegs}

\* The pooled descendants of the transactions in S, S itself excluded.
Cascade(S) == Descendants(PoolState, S) \ S

(***************************************************************************)
(* C27: after removeExpireConflicts(D), no pooled transaction updates a    *)
(* domain of D; the transactions evicted are the pooled updates of the     *)
(* domains of D and their pooled descendants, so a pooled registration is  *)
(* evicted only as a descendant of an evicted update.                      *)
(***************************************************************************)
C27_RemoveExpireConflicts ==
    [][lastOp' = "removeExpireConflicts" =>
          /\ \A d \in poolArg' :
                /\ ~updatesDomain(PoolStateAfter, d)
                /\ PooledUpdates(d)' = {}
          /\ removed' = Descendants(PoolState, UpdatersOf(poolArg'))
          /\ mapTx' = mapTx \ removed'
          /\ \A t \in removed' :
                isDomainRegistration(Txs[t]) => t \in Cascade(UpdatersOf(poolArg'))
      ]_vars

\* C27's case: PoolD1 expired while its update, transaction 4, and the
\* registration spending it, transaction 7, were pooled: both are evicted,
\* and the pooled registration of PoolD1, transaction 1, stays.
C27_Witness ==
    /\ lastOp = "removeExpireConflicts"
    /\ poolArg = {PoolD1}
    /\ removed = {4, 7}
    /\ 1 \in mapTx
    /\ registersDomain(PoolState, PoolD1)

(***************************************************************************)
(* C28: after removeUnexpireConflicts(D), no pooled transaction registers  *)
(* a domain of D; the transactions evicted are the pooled registrations of *)
(* the domains of D and their pooled descendants, so a pooled update is    *)
(* evicted only as a descendant of an evicted registration.                *)
(***************************************************************************)
C28_RemoveUnexpireConflicts ==
    [][lastOp' = "removeUnexpireConflicts" =>
          /\ \A d \in poolArg' :
                /\ ~registersDomain(PoolStateAfter, d)
                /\ PooledRegs(d)' = {}
          /\ removed' = Descendants(PoolState, RegistrarsOf(poolArg'))
          /\ mapTx' = mapTx \ removed'
          /\ \A t \in removed' :
                isDomainUpdate(Txs[t]) => t \in Cascade(RegistrarsOf(poolArg'))
      ]_vars

\* C28's case: PoolD1 is unexpired while its registration, transaction 1,
\* and the update spending it, transaction 3, were pooled: both are
\* evicted, and the pooled update of PoolD2, transaction 9, stays.
C28_Witness ==
    /\ lastOp = "removeUnexpireConflicts"
    /\ poolArg = {PoolD1}
    /\ removed = {1, 3}
    /\ 9 \in mapTx
    /\ updatesDomain(PoolState, PoolD2)

(***************************************************************************)
(* SpecAdd: the mempool registry when addUnchecked is called without a     *)
(* checkTx before it.  A failed assertion ends the run.                    *)
(***************************************************************************)
PoolAddUnchecked ==
    \E hash \in TxIds :
        /\ ~poolAbort
        /\ hash \notin mapTx
        /\ Txs[hash].parent = 0 \/ Txs[hash].parent \in mapTx
        /\ LET p == CDomainMemPool_addUnchecked(PoolState, hash)
           IN  SetPool(IF p.abort THEN p
                       ELSE [p EXCEPT !.mapTx = p.mapTx \cup {hash}],
                       "addUnchecked", hash)

InitAdd == InitPool

NextAdd ==
    \/ PoolAddUnchecked
    \/ PoolRemove
    \/ PoolClear

SpecAdd == InitAdd /\ [][NextAdd]_vars

\* The DOMAIN_NEW hash of entry u is mapped, to transaction t / to another.
NewMappedTo(u, t) ==
    /\ isDomainNew(Txs[u])
    /\ getDomainNewHash(Txs[u]) \in DOMAIN mapDomainNews
    /\ mapDomainNews[getDomainNewHash(Txs[u])] = t

NewMappedElsewhere(u) ==
    /\ isDomainNew(Txs[u])
    /\ getDomainNewHash(Txs[u]) \in DOMAIN mapDomainNews
    /\ mapDomainNews[getDomainNewHash(Txs[u])] # u

(***************************************************************************)
(* C29: addUnchecked fails an assertion exactly when the entry is a NEW    *)
(* whose hash is mapped to a different transaction id, or the entry        *)
(* registers a domain that has a pending registration, or updates a domain *)
(* that has a pending update; adding a NEW whose hash is mapped to the     *)
(* same transaction id succeeds and leaves the three maps unchanged.       *)
(***************************************************************************)
C29_AddUncheckedAborts ==
    [][lastOp' = "addUnchecked" =>
          /\ poolAbort' <=>
                \/ NewMappedElsewhere(poolArg')
                \/ /\ isDomainRegistration(Txs[poolArg'])
                   /\ registersDomain(PoolState, getDomain(Txs[poolArg']))
                \/ /\ isDomainUpdate(Txs[poolArg'])
                   /\ updatesDomain(PoolState, getDomain(Txs[poolArg']))
          /\ NewMappedTo(poolArg', poolArg') =>
                /\ ~poolAbort'
                /\ poolArg' \in mapTx'
                /\ poolMaps' = poolMaps
      ]_vars

\* C29's case: the NEW transaction 6 was added while its hash was mapped to
\* transaction 5, and the assertion failed.
C29_Witness ==
    /\ lastOp = "addUnchecked"
    /\ poolArg = 6
    /\ poolAbort
    /\ mapDomainNews = MapPut(EmptyMap, PoolHash, 5)

(***************************************************************************)
(* SpecHistoric: CheckDomainTransaction of transactions that the           *)
(* historic-bug allowlist may name, with inputs that may be missing from   *)
(* the view.                                                               *)
(***************************************************************************)
BugTypes == {"BUG_FULLY_APPLY", "BUG_IN_UTXO", "BUG_FULLY_IGNORE"}

HistoricInputs(v) ==
    ValInputs(v) \cup {<<COutPoint(CoinMissing, 1)>>,
                       <<COutPoint(CoinNew1, 1), COutPoint(CoinMissing, 1)>>}

HistoricTxs(v) ==
    {CTransaction(b, i, o, bug) :
        b \in BOOLEAN, i \in HistoricInputs(v), o \in ValOutputs,
        bug \in {"none"} \cup BugTypes}

HistoricCheck ==
    /\ lastOp = "init"
    /\ \E tx \in HistoricTxs(view), fMempool \in ValFlags(view) :
          /\ valCall' = [tx |-> tx, fMempool |-> fMempool]
          /\ valRet' = CheckDomainTransaction(tx, chainHeight, view, fMempool)
          /\ valState' = CheckDomainTransaction_state(
                             CheckDomainTransaction(tx, chainHeight, view, fMempool))
    /\ lastOp' = "CheckDomainTransaction"
    /\ UNCHANGED <<cacheVars, iterVars, poolVars, chainVars, updVars, fnVars>>

InitHistoric == InitValidate

NextHistoric == HistoricCheck

SpecHistoric == InitHistoric /\ [][NextHistoric]_vars

\* What the rules of CheckDomainTransaction give for the call's
\* transaction, the allowlist left aside.
RulesOutcome ==
    LET tx == valCall.tx
        locIn == LocateDomainInput(tx, view, 1, 0)
        locOut == LocateDomainOutput(tx, 1, 0)
    IN  IF locIn.ret # "ok" THEN locIn.ret
        ELSE IF locOut.ret # "ok" THEN locOut.ret
        ELSE CheckDomainRules(tx, chainHeight, view, valCall.fMempool,
                              locIn.domainIn, locOut.domainOut)

(***************************************************************************)
(* C30: a transaction the historic-bug allowlist names at the height of    *)
(* the call is accepted by CheckDomainTransaction whatever its inputs and  *)
(* outputs are, and no rule is evaluated for it (no assertion can fail);   *)
(* for a transaction the allowlist does not name, the outcome is that of   *)
(* the rules.                                                              *)
(***************************************************************************)
C30_HistoricBugAccepted ==
    Checked =>
        IF valCall.tx.bug \in BugTypes
        THEN valRet = "ok"
        ELSE valRet = RulesOutcome

\* C30's case: an allowlisted transaction without the Beyondcoin version,
\* with an input missing from the view and two domain outputs, is accepted
\* at the mempool's height.
C30_Witness ==
    /\ Checked
    /\ valCall.tx.bug = "BUG_IN_UTXO"
    /\ ~valCall.tx.beyond
    /\ valCall.tx.vin = <<COutPoint(CoinMissing, 1)>>
    /\ Len(valCall.tx.vout) = 2
    /\ RulesOutcome = "failed to fetch input coins"
    /\ chainHeight = MEMPOOL_HEIGHT
    /\ valRet = "ok"

(***************************************************************************)
(* CheckDomainDB.  The option is the value of -checknamedb, nHeight is     *)
(* chainActive.Height (), ok is the result of ValidateDomainDB.  The       *)
(* outcome says whether the validation ran, whether the mismatch was       *)
(* logged, and whether an assertion failed.                                *)
(***************************************************************************)
StealingFrom == 139000

StealingTo == 180000

CheckDomainDB_outcome(ran, logged, abort) ==
    [ran |-> ran, logged |-> logged, abort |-> abort]

\* A CheckDomainDB for which every mismatch is fatal.
CheckDomainDB_noWindow(option, disconnect, nHeight, ok) ==
    IF option = -1 THEN CheckDomainDB_outcome(FALSE, FALSE, FALSE)
    ELSE IF option < 0 THEN CheckDomainDB_outcome(FALSE, FALSE, TRUE)
    ELSE IF option # 0 /\ (disconnect \/ nHeight % option # 0)
    THEN CheckDomainDB_outcome(FALSE, FALSE, FALSE)
    ELSE IF ok THEN CheckDomainDB_outcome(TRUE, FALSE, FALSE)
    ELSE CheckDomainDB_outcome(TRUE, TRUE, TRUE)

CheckDomainDB(option, disconnect, nHeight, ok) ==
    IF option = -1 THEN CheckDomainDB_outcome(FALSE, FALSE, FALSE)
    ELSE IF option < 0 THEN CheckDomainDB_outcome(FALSE, FALSE, TRUE)
    ELSE IF option # 0 /\ (disconnect \/ nHeight % option # 0)
    THEN CheckDomainDB_outcome(FALSE, FALSE, FALSE)
    ELSE IF ok THEN CheckDomainDB_outcome(TRUE, FALSE, FALSE)
    ELSE IF nHeight >= StealingFrom /\ nHeight <= StealingTo
    THEN CheckDomainDB_outcome(TRUE, TRUE, FALSE)
    ELSE CheckDomainDB_outcome(TRUE, TRUE, TRUE)

(***************************************************************************)
(* SpecCheckDB: one call of CheckDomainDB for each option, height,         *)
(* direction and state of the database.                                    *)
(***************************************************************************)
CheckOptions == {-2, -1, 0, 1, 2, 3, 1000}

CheckHeights ==
    {0, 1, 2, 3, 6, 1000, StealingFrom - 1, StealingFrom, StealingFrom + 1,
     PostmortemHeight, StealingTo - 1, StealingTo, StealingTo + 1}

CheckDBCall ==
    /\ lastOp = "init"
    /\ fnRet' = CheckDomainDB(fnCall.option, fnCall.disconnect, fnCall.nHeight,
                              fnCall.ok)
    /\ lastOp' = "CheckDomainDB"
    /\ UNCHANGED <<cacheVars, iterVars, poolVars, chainVars, valVars, updVars,
                   flushBase, fnCall, historyData>>

InitCheckDB ==
    /\ fDomainHistory = FALSE
    /\ cache = CDomainCache_clear
    /\ child = CDomainCache_clear
    /\ nOps = 0
    /\ lastOp = "init"
    /\ IterUnused
    /\ PoolUnused
    /\ ChainUnused
    /\ ValUnused
    /\ UpdUnused
    /\ flushBase = CDomainCache_clear
    /\ historyData = <<>>
    /\ \E option \in CheckOptions, disconnect \in BOOLEAN,
          nHeight \in CheckHeights, ok \in BOOLEAN :
          fnCall = [option |-> option, disconnect |-> disconnect,
                    nHeight |-> nHeight, ok |-> ok]
    /\ fnRet = None

NextCheckDB == CheckDBCall

SpecCheckDB == InitCheckDB /\ [][NextCheckDB]_vars

\* When the call validates the database, by the option.
CheckRuns ==
    \/ fnCall.option = 0
    \/ /\ fnCall.option > 0
       /\ ~fnCall.disconnect
       /\ fnCall.nHeight % fnCall.option = 0

(***************************************************************************)
(* C31: CheckDomainDB skips the check when the option is -1, runs it on    *)
(* every call when the option is 0, and for an option N > 0 runs it only   *)
(* when not disconnecting and the height is a multiple of N; when it runs  *)
(* and finds a mismatch, the mismatch is logged, and it is fatal unless    *)
(* the height lies in [139000, 180000].                                    *)
(***************************************************************************)
C31_CheckDomainDB ==
    lastOp = "CheckDomainDB" /\ fnCall.option >= -1 =>
        /\ fnRet.ran <=> CheckRuns
        /\ fnRet.logged <=> (CheckRuns /\ ~fnCall.ok)
        /\ fnRet.abort <=>
              /\ CheckRuns
              /\ ~fnCall.ok
              /\ ~(fnCall.nHeight >= 139000 /\ fnCall.nHeight <= 180000)

\* C31's case: a mismatch found while disconnecting at the last height of
\* the window, with option 0, is logged and tolerated.
C31_Witness ==
    /\ lastOp = "CheckDomainDB"
    /\ fnCall = [option |-> 0, disconnect |-> TRUE, nHeight |-> 180000,
                 ok |-> FALSE]
    /\ fnRet = CheckDomainDB_outcome(TRUE, TRUE, FALSE)

(***************************************************************************)
(* SpecExpire: one call of ExpireDomains, at a height and under a rule set *)
(* taken from a family of depth schedules, on a view in which each domain  *)
(* may have a record of an earlier height or of the block itself.          *)
(***************************************************************************)
MaxExpireHeight == 4

\* Depth schedules: the chain's, a constant one, one that grows with the
\* height, one that drops below the height, one that jumps by two, and one
\* that shrinks by one each block.
ExpireRules ==
    {DefaultRules, <<2>>, <<1, 1, 2, 3, 4>>, <<3, 1>>, <<1, 1, 1, 3>>,
     <<2, 2, 1, 0>>, <<1, 3>>}

\* The view before the call: the record of domain d, if any (p[d] >= 0), is
\* of height p[d], and its coin is unspent unless the record was expired already at
\* the block before.
ExpireView(nHeight, p) ==
    LET ds == {d \in ChainDomains : p[d] >= 0}
        coin(d) == IF d = PoolD1 THEN 1 ELSE 2
        live == {d \in ds : nHeight = 0 \/ ~isExpired(p[d], nHeight - 1)}
    IN  [EmptyView EXCEPT
           !.coins = [c \in {coin(d) : d \in live} |->
                         CCoins(<<ScriptUpdate(IF c = 1 THEN PoolD1 ELSE PoolD2)>>,
                                p[IF c = 1 THEN PoolD1 ELSE PoolD2])],
           !.dbDomains = [d \in ds |->
                             CDomainData_fromScript(p[d], COutPoint(coin(d), 1),
                                                    ScriptUpdate(d))],
           !.dbExpireIndex = {ExpireEntry(p[d], d) : d \in ds}]

InitExpire ==
    /\ fDomainHistory = FALSE
    /\ cache = CDomainCache_clear
    /\ child = CDomainCache_clear
    /\ nOps = 0
    /\ lastOp = "init"
    /\ IterUnused
    /\ PoolUnused
    /\ rules \in ExpireRules
    /\ chainBlocks = <<>>
    /\ chainHeight \in 0..MaxExpireHeight
    /\ \E p \in [ChainDomains -> -1..MaxExpireHeight] :
          /\ \A d \in ChainDomains : p[d] <= chainHeight
          /\ view = ExpireView(chainHeight, p)
    /\ blockUndo = EmptyUndo
    /\ phase = "open"
    /\ chainRet = "ok"
    /\ names = {}
    /\ snapBlock = EmptyView
    /\ snapExpire = EmptyView
    /\ nextTx = 3
    /\ ValUnused
    /\ UpdUnused
    /\ FnUnused

NextExpire == ChainExpire

SpecExpire == InitExpire /\ [][NextExpire]_vars

\* The call's two depths and the two ends of its range, as integers.
DepthOld == DomainExpirationDepth(chainHeight - 1)

DepthNow == DomainExpirationDepth(chainHeight)

ExpireFrom == chainHeight - DepthOld

ExpireTo == chainHeight - DepthNow

\* The domains the view had indexed in the range before the call.
IndexedInRange ==
    UNION {GetDomainsForHeight(snapExpire, h) : h \in
              {x \in 0..chainHeight : ExpireFrom <= x /\ x <= ExpireTo}}

Expired == lastOp = "ExpireDomains"

UnexpireRules == {DefaultRules, <<2, 2, 1, 0>>}

UndoScripts ==
    {ScriptUpdate(PoolD1), ScriptUpdate(PoolD2), ScriptFirstUpdate(PoolD1),
     ScriptNew(PoolHash), ScriptOther}

\* The undo entry of a coin with the given script: its height is that of
\* the record of the script's domain, 1 without one.
UndoEntry(script, p) ==
    CTxInUndo(script,
              IF script.domain \in ChainDomains /\ p[script.domain] >= 0
              THEN p[script.domain] ELSE 1)

UndoLists(p) ==
    {<<>>} \cup {<<UndoEntry(s, p)>> : s \in UndoScripts}
    \cup {<<UndoEntry(s, p), UndoEntry(t, p)>> : s \in UndoScripts, t \in UndoScripts}

InitUnexpire ==
    /\ fDomainHistory = FALSE
    /\ cache = CDomainCache_clear
    /\ child = CDomainCache_clear
    /\ nOps = 0
    /\ lastOp = "init"
    /\ IterUnused
    /\ PoolUnused
    /\ rules \in UnexpireRules
    /\ chainBlocks = <<>>
    /\ chainHeight \in 0..MaxExpireHeight
    /\ \E p \in [ChainDomains -> -1..MaxExpireHeight] :
          /\ \A d \in ChainDomains : p[d] <= chainHeight
          /\ view = ExpireView(chainHeight + 1, p)
          /\ \E vexpired \in UndoLists(p) :
                /\ chainHeight = 0 => vexpired = <<>>
                /\ blockUndo = [vdomainundo |-> <<>>, vexpired |-> vexpired]
    /\ phase = "connected"
    /\ chainRet = "ok"
    /\ names = {}
    /\ snapBlock = EmptyView
    /\ snapExpire = EmptyView
    /\ nextTx = 3
    /\ ValUnused
    /\ UpdUnused
    /\ FnUnused

NextUnexpire == ChainUnexpire

SpecUnexpire == InitUnexpire /\ [][NextUnexpire]_vars

\* The undo entries of the call, and the domain of entry k.
Vexpired == blockUndo.vexpired

UndoDomain(k) == Vexpired[k].txout.domain

\* Entry k, met with the view as it is before the call, is one the loop
\* fails at: not a domain any-update coin, a domain met earlier in the pass
\* (entries are taken last to first), a domain without a record, or a
\* record that is not expired at the height or was expired before it.
UndoRejected(k) ==
    \/ ~isDomainOp(Vexpired[k].txout)
    \/ ~isAnyUpdate(Vexpired[k].txout)
    \/ \E j \in (k + 1)..Len(Vexpired) : UndoDomain(j) = UndoDomain(k)
    \/ GetDomain(view, UndoDomain(k)) = None
    \/ ~CDomainData_isExpired(GetDomain(view, UndoDomain(k)), chainHeight)
    \/ CDomainData_isExpired(GetDomain(view, UndoDomain(k)), chainHeight - 1)

\* The first entry the pass fails at, 0 if there is none.
FirstRejected ==
    IF \E k \in 1..Len(Vexpired) : UndoRejected(k)
    THEN CHOOSE k \in 1..Len(Vexpired) :
            /\ UndoRejected(k)
            /\ \A j \in (k + 1)..Len(Vexpired) : ~UndoRejected(j)
    ELSE 0

\* The coins of the record of domain d are the same after the step.
CoinUntouched(d) ==
    GetDomain(view, d) # None =>
        LET hash == GetDomain(view, d).prevout[1]
        IN  /\ (hash \in DOMAIN view.coins) = (hash \in DOMAIN view'.coins)
            /\ hash \in DOMAIN view.coins => view'.coins[hash] = view.coins[hash]

(***************************************************************************)
(* C33: UnexpireDomains at height H takes the block's expired-coin undo    *)
(* entries last to first and fails, without restoring the coin of that     *)
(* entry or of any entry before it in the list, at the first entry that is *)
(* not a domain any-update coin, whose domain occurred earlier in the      *)
(* pass, whose domain has no record, or whose record is not expired at H   *)
(* or is expired at H - 1; when it succeeds, the set reported is the set   *)
(* of the domains of the undo entries and the coin of each is available    *)
(* again with the entry's output.  It never changes a domain record.       *)
(***************************************************************************)
C33_UnexpireDomains ==
    [][lastOp' = "UnexpireDomains" =>
          /\ FirstRejected # 0 =>
                /\ chainRet' # "ok"
                /\ \A k \in 1..FirstRejected :
                      (\A j \in (FirstRejected + 1)..Len(Vexpired) :
                           UndoDomain(j) # UndoDomain(k))
                          => CoinUntouched(UndoDomain(k))
          /\ chainRet' = "ok" =>
                /\ FirstRejected = 0
                /\ names' = {UndoDomain(k) : k \in 1..Len(Vexpired)}
                /\ \A k \in 1..Len(Vexpired) :
                      LET outpoint == GetDomain(view, UndoDomain(k)).prevout
                      IN  /\ IsAvailable(view', outpoint)
                          /\ view'.coins[outpoint[1]].vout[outpoint[2]]
                                = Vexpired[k].txout
          /\ \A d \in ChainDomains : GetDomain(view', d) = GetDomain(view, d)
      ]_vars

\* C33's case: at height 3 the undo list names PoolD1 twice; the pass
\* restores the coin of the last entry and fails at the entry before it,
\* PoolD2's spent coin staying spent.
C33_Witness ==
    /\ lastOp = "UnexpireDomains"
    /\ chainHeight = 3
    /\ chainRet = "unexpired twice"
    /\ names = {PoolD1}
    /\ Len(Vexpired) = 2
    /\ IsAvailable(view, <<1, 1>>)
    /\ GetDomain(view, PoolD2) # None
    /\ ~IsAvailable(view, <<2, 1>>)

(***************************************************************************)
(* SpecApply: one call of ApplyDomainTransaction, after the coin update of *)
(* the transaction, for transactions with and without the version flag     *)
(* under each historic-bug category.                                       *)
(***************************************************************************)
ApplyOutputs ==
    {<<ScriptFirstUpdate(PoolD1)>>, <<ScriptUpdate(PoolD1)>>,
     <<ScriptOther, ScriptUpdate(PoolD2)>>, <<ScriptNew(PoolHash)>>,
     <<ScriptUpdate(PoolD1), ScriptFirstUpdate(PoolD2)>>, <<ScriptOther>>}

ApplyTxs ==
    {ChainTx(b, o, FALSE, bug) :
        b \in BOOLEAN, o \in ApplyOutputs, bug \in {"none"} \cup BugTypes}

ApplyCall ==
    /\ lastOp = "init"
    /\ \E tx \in ApplyTxs :
          LET v1 == UpdateCoins(tx, nextTx, chainHeight, view)
              r == ApplyDomainTransaction(tx, nextTx, chainHeight, v1,
                                          blockUndo.vdomainundo)
          IN  /\ view' = r.view
              /\ blockUndo' = [blockUndo EXCEPT !.vdomainundo = r.vdomainundo]
              /\ fnCall' = tx
    /\ lastOp' = "ApplyDomainTransaction"
    /\ UNCHANGED <<chainHeight, phase, chainRet, names, snapBlock, snapExpire,
                   nextTx, rules, chainBlocks>>
    /\ UNCHANGED <<cacheVars, iterVars, poolVars, valVars, updVars, flushBase,
                   fnRet, historyData>>

InitApply ==
    /\ fDomainHistory = FALSE
    /\ cache = CDomainCache_clear
    /\ child = CDomainCache_clear
    /\ nOps = 0
    /\ lastOp = "init"
    /\ IterUnused
    /\ PoolUnused
    /\ rules = DefaultRules
    /\ chainBlocks = <<>>
    /\ chainHeight \in 1..MaxExpireHeight
    /\ \E p \in [ChainDomains -> -1..MaxExpireHeight] :
          /\ \A d \in ChainDomains : p[d] < chainHeight
          /\ view = ExpireView(chainHeight, p)
    /\ blockUndo = EmptyUndo
    /\ phase = "open"
    /\ chainRet = "ok"
    /\ names = {}
    /\ snapBlock = EmptyView
    /\ snapExpire = EmptyView
    /\ nextTx = 3
    /\ ValUnused
    /\ UpdUnused
    /\ FnUnused

NextApply == ApplyCall

SpecApply == InitApply /\ [][NextApply]_vars

\* The view ApplyDomainTransaction is called on in the step: the view
\* before it with the coins of the transaction.
ApplyOn == UpdateCoins(fnCall', nextTx, chainHeight, view)

\* The any-update outputs of the step's transaction.
AnyUpdateOutputs ==
    {i \in 1..Len(fnCall'.vout) :
        isDomainOp(fnCall'.vout[i]) /\ isAnyUpdate(fnCall'.vout[i])}

(***************************************************************************)
(* C34: ApplyDomainTransaction changes no domain record and appends no     *)
(* undo entry when the transaction is a historic bug of a category other   *)
(* than fully-apply, or when it is not domain-bearing; for the             *)
(* fully-ignore category each any-update output of the transaction is      *)
(* spent afterwards and no other output is touched, otherwise the coins    *)
(* stay as they are; for the fully-apply category the outcome is that of   *)
(* the same transaction off the allowlist.                                 *)
(***************************************************************************)
C34_HistoricBugApply ==
    [][lastOp' = "ApplyDomainTransaction" =>
          /\ fnCall'.bug \in {"BUG_IN_UTXO", "BUG_FULLY_IGNORE"} \/ ~fnCall'.beyond =>
                /\ view'.cacheDomains = view.cacheDomains
                /\ \A d \in ChainDomains : GetDomain(view', d) = GetDomain(view, d)
                /\ blockUndo' = blockUndo
                /\ \A c \in DOMAIN view'.coins \ {nextTx} :
                      c \in DOMAIN ApplyOn.coins /\ view'.coins[c] = ApplyOn.coins[c]
                /\ \A i \in 1..Len(fnCall'.vout) :
                      IsAvailable(view', <<nextTx, i>>)
                          = ~(fnCall'.bug = "BUG_FULLY_IGNORE" /\ i \in AnyUpdateOutputs)
          /\ fnCall'.bug = "BUG_FULLY_APPLY" =>
                LET r == ApplyDomainTransaction([fnCall' EXCEPT !.bug = "none"],
                             nextTx, chainHeight, ApplyOn, blockUndo.vdomainundo)
                IN  /\ view' = r.view
                    /\ blockUndo'.vdomainundo = r.vdomainundo
      ]_vars

\* C34's case: a fully-ignore transaction without the version flag, whose
\* second output updates PoolD2: the output is spent, the other one is
\* not, and PoolD2 keeps its record of height 1.
C34_Witness ==
    /\ lastOp = "ApplyDomainTransaction"
    /\ fnCall = ChainTx(FALSE, <<ScriptOther, ScriptUpdate(PoolD2)>>, FALSE,
                        "BUG_FULLY_IGNORE")
    /\ IsAvailable(view, <<3, 1>>)
    /\ ~IsAvailable(view, <<3, 2>>)
    /\ GetDomain(view, PoolD2) # None
    /\ GetDomain(view, PoolD2).nHeight = 1
    /\ blockUndo = EmptyUndo

(***************************************************************************)
(* SpecHistory: push and pop on one CDomainHistory, starting empty.  A     *)
(* failed assertion ends the process.                                      *)
(***************************************************************************)
MaxHistoryLen == 3
MaxHistoryHeight == 3

\* The records pushed and popped.
HistoryEntries ==
    {CDomainData(v, h, <<1, 0>>, a) :
        v \in Values, h \in 1..MaxHistoryHeight, a \in {1, 2}}

CDomainHistory_push(data, entry) ==
    IF data = <<>> \/ data[Len(data)].nHeight <= entry.nHeight
    THEN [abort |-> FALSE, data |-> Append(data, entry)]
    ELSE [abort |-> TRUE, data |-> data]

\* A pop that compares the heights only.
CDomainHistory_pop_heightOnly(data, entry) ==
    IF data # <<>> /\ data[Len(data)].nHeight = entry.nHeight
    THEN [abort |-> FALSE, data |-> SubSeq(data, 1, Len(data) - 1)]
    ELSE [abort |-> TRUE, data |-> data]

CDomainHistory_pop(data, entry) ==
    IF data # <<>> /\ CDomainData_eq(data[Len(data)], entry)
    THEN [abort |-> FALSE, data |-> SubSeq(data, 1, Len(data) - 1)]
    ELSE [abort |-> TRUE, data |-> data]

HistoryStep(op, entry, r) ==
    /\ fnRet # "abort"
    /\ historyData' = r.data
    /\ fnCall' = entry
    /\ fnRet' = IF r.abort THEN "abort" ELSE "ok"
    /\ lastOp' = op
    /\ UNCHANGED <<cacheVars, iterVars, poolVars, chainVars, valVars, updVars,
                   flushBase>>

HistoryPush ==
    /\ Len(historyData) < MaxHistoryLen
    /\ \E entry \in HistoryEntries :
          HistoryStep("push", entry, CDomainHistory_push(historyData, entry))

HistoryPop ==
    \E entry \in HistoryEntries :
        HistoryStep("pop", entry, CDomainHistory_pop(historyData, entry))

InitHistory ==
    /\ fDomainHistory = TRUE
    /\ cache = CDomainCache_clear
    /\ child = CDomainCache_clear
    /\ nOps = 0
    /\ lastOp = "init"
    /\ IterUnused
    /\ PoolUnused
    /\ ChainUnused
    /\ ValUnused
    /\ UpdUnused
    /\ flushBase = CDomainCache_clear
    /\ fnCall = None
    /\ fnRet = "ok"
    /\ historyData = <<>>

NextHistory ==
    \/ HistoryPush
    \/ HistoryPop

SpecHistory == InitHistory /\ [][NextHistory]_vars

\* The stack without its top.
HistoryBelowTop == SubSeq(historyData, 1, Len(historyData) - 1)

HistoryTopIs(entry) ==
    historyData # <<>> /\ historyData[Len(historyData)] = entry

(***************************************************************************)
(* C35: the heights of a CDomainHistory never decrease from oldest to      *)
(* newest, a push below the top's height aborting; pop (r) succeeds        *)
(* exactly when the stack is not empty and r is its top, and then removes  *)
(* the top and nothing else, so that pop (r) after push (r) gives the      *)
(* stack back; every other pop aborts.                                     *)
(***************************************************************************)
C35_HistoryStack ==
    /\ [](\A i \in 1..Len(historyData), j \in 1..Len(historyData) :
             i < j => historyData[i].nHeight <= historyData[j].nHeight)
    /\ [](fnRet # "abort" =>
             \A r \in HistoryEntries :
                 ~CDomainHistory_push(historyData, r).abort =>
                     CDomainHistory_pop(CDomainHistory_push(historyData, r).data, r)
                         = [abort |-> FALSE, data |-> historyData])
    /\ [][/\ lastOp' = "push" =>
                IF historyData # <<>>
                   /\ fnCall'.nHeight < historyData[Len(historyData)].nHeight
                THEN fnRet' = "abort" /\ historyData' = historyData
                ELSE fnRet' = "ok" /\ historyData' = Append(historyData, fnCall')
          /\ lastOp' = "pop" =>
                IF HistoryTopIs(fnCall')
                THEN fnRet' = "ok" /\ historyData' = HistoryBelowTop
                ELSE fnRet' = "abort" /\ historyData' = historyData
      ]_vars

\* C35's case: a record was just popped off a stack that still holds two
\* records of different heights.
C35_Witness ==
    /\ lastOp = "pop"
    /\ fnRet = "ok"
    /\ fnCall = CDomainData(2, 3, <<1, 0>>, 1)
    /\ Len(historyData) = 2
    /\ historyData[1].nHeight = 1
    /\ historyData[2].nHeight = 2

(***************************************************************************)
(* SpecBlocks: blocks are connected and disconnected on a view that starts *)
(* consistent.  A block is connected by validating and applying its        *)
(* transactions one after the other and by ExpireDomains at its height;    *)
(* the tip is disconnected by UnexpireDomains, the coin undo of its        *)
(* transactions and its domain undo entries, last to first.                *)
(***************************************************************************)
\* Number of blocks connected at once, and of transactions in one run.
MaxBlocks == 2
MaxBlockTx == 2

\* The heights of the first block connected.
BlockStartHeights == {14, PostmortemHeight - 1}

BlockDomains == {PoolD1, PostmortemDomain}

\* Depth schedules for the blocks: constant, one less from height 15 on,
\* one more from height 15 on.
BlockRules ==
    {[i \in 1..18 |-> 3],
     [i \in 1..18 |-> IF i <= 15 THEN 3 ELSE 2],
     [i \in 1..18 |-> IF i <= 15 THEN 2 ELSE 3]}

\* The hashes of the coins of the first view.
BlockCoinNew(d) == IF d = PoolD1 THEN 101 ELSE 102
BlockCoinOf(d) == IF d = PoolD1 THEN 104 ELSE 105
BlockCoinOther == CoinOther

\* The view after the block of height nHeight - 1: a matured NEW for each
\* domain, a coin without domain, and for each domain d with p[d] >= 0 a
\* record of height p[d], whose coin is unspent unless the record has
\* expired.
BlockView(nHeight, p) ==
    LET ds == {d \in BlockDomains : p[d] >= 0}
        live == {d \in ds : ~isExpired(p[d], nHeight - 1)}
        c0 == [c \in {BlockCoinNew(d) : d \in BlockDomains} |->
                  CCoins(<<OutNew(Hash160(Salt1 \o
                              (IF c = 101 THEN PoolD1 ELSE PostmortemDomain)), 2)>>, 1)]
        c1 == MapPut(c0, BlockCoinOther, CCoins(<<OutOther>>, 1))
        c2 == [c \in DOMAIN c1 \cup {BlockCoinOf(d) : d \in live} |->
                  IF c \in DOMAIN c1 THEN c1[c]
                  ELSE LET d == IF c = 104 THEN PoolD1 ELSE PostmortemDomain
                       IN  CCoins(<<OutUpdate(d, Value1, 2)>>, p[d])]
    IN  [EmptyView EXCEPT
           !.coins = c2,
           !.dbDomains = [d \in ds |->
                             CDomainData_fromScript(p[d], COutPoint(BlockCoinOf(d), 1),
                                                    OutUpdate(d, Value1, 2))],
           !.dbExpireIndex = {ExpireEntry(p[d], d) : d \in ds}]

\* The outputs and inputs of the transactions offered to a block.
BlockOutputs ==
    {<<OutOther>>}
    \cup UNION {{<<OutFirstUpdate(Salt1, d, Value2, 2)>>,
                 <<OutOther, OutUpdate(d, Value2, 2)>>} : d \in BlockDomains}

BlockInputs(v) ==
    {<<COutPoint(c, i)>> : c \in DOMAIN v.coins, i \in 1..2}

\* No transaction is a historic bug: the chain parameters register none.
BlockTxs(v) ==
    {CTransaction(b, i, o, "none") :
        b \in BOOLEAN, i \in BlockInputs(v), o \in BlockOutputs}

\* The inputs of a transaction are unspent outputs of the view.
HaveInputs(v, tx) == \A k \in 1..Len(tx.vin) : IsAvailable(v, tx.vin[k])

\* UpdateCoins: the inputs are spent, each leaving its undo entry, and
\* the outputs become coins of the block's height.
RECURSIVE SpendTxInputs(_, _, _, _)
SpendTxInputs(v, tx, i, txundo) ==
    IF i > Len(tx.vin) THEN [view |-> v, txundo |-> txundo]
    ELSE LET s == Spend(v, tx.vin[i])
         IN  SpendTxInputs(s.view, tx, i + 1, Append(txundo, s.undo))

BlockUpdateCoins(tx, txHash, nHeight, v) ==
    LET s == SpendTxInputs(v, tx, 1, <<>>)
    IN  [view |-> [s.view EXCEPT !.coins = MapPut(s.view.coins, txHash,
                                                CCoins(tx.vout, nHeight))],
         txundo |-> s.txundo]

\* The coin undo of one transaction of a disconnected block: its outputs
\* are removed and its inputs put back, last to first.
RECURSIVE RestoreInputs(_, _, _)
RestoreInputs(v, t, j) ==
    IF j = 0 THEN v
    ELSE RestoreInputs(ApplyTxInUndo(t.txundo[j], v, t.tx.vin[j], TRUE).view,
                       t, j - 1)

RECURSIVE DisconnectTxs(_, _, _)
DisconnectTxs(v, vtx, k) ==
    IF k = 0 THEN v
    ELSE LET t == vtx[k]
             v1 == [v EXCEPT !.coins = MapErase(v.coins, t.hash)]
         IN  DisconnectTxs(RestoreInputs(v1, t, Len(t.tx.vin)), vtx, k - 1)

\* The block of the tip.
TipBlock == chainBlocks[Len(chainBlocks)]

BlocksFrame ==
    UNCHANGED <<cacheVars, iterVars, poolVars, valVars, updVars, fnVars, rules>>

\* A new block on the tip; the undo data of the block before are kept.
BlockNext ==
    /\ phase = "connected"
    /\ Len(chainBlocks) < MaxBlocks
    /\ chainHeight' = chainHeight + 1
    /\ chainBlocks' =
          Append(IF chainBlocks = <<>> THEN chainBlocks
                 ELSE [chainBlocks EXCEPT ![Len(chainBlocks)].undo = blockUndo],
                 [vtx |-> <<>>, undo |-> EmptyUndo])
    /\ blockUndo' = EmptyUndo
    /\ snapBlock' = view
    /\ snapExpire' = EmptyView
    /\ phase' = "open"
    /\ lastOp' = "ConnectBlock"
    /\ UNCHANGED <<view, chainRet, names, nextTx>>
    /\ BlocksFrame

\* A transaction that CheckDomainTransaction accepts on the view is
\* connected: coin update, then ApplyDomainTransaction.
BlockConnectTx ==
    /\ phase = "open"
    /\ nextTx <= MaxBlockTx
    /\ \E tx \in BlockTxs(view) :
          /\ HaveInputs(view, tx)
          /\ CheckDomainTransaction(tx, chainHeight, view, FALSE) = "ok"
          /\ LET u == BlockUpdateCoins(tx, nextTx, chainHeight, view)
                 r == ApplyDomainTransaction(tx, nextTx, chainHeight, u.view,
                                             blockUndo.vdomainundo)
             IN  /\ view' = r.view
                 /\ blockUndo' = [blockUndo EXCEPT !.vdomainundo = r.vdomainundo]
                 /\ chainBlocks' =
                       [chainBlocks EXCEPT ![Len(chainBlocks)].vtx =
                           Append(@, [hash |-> nextTx, tx |-> tx,
                                      txundo |-> u.txundo])]
    /\ nextTx' = nextTx + 1
    /\ lastOp' = "ApplyDomainTransaction"
    /\ UNCHANGED <<chainHeight, phase, chainRet, names, snapBlock, snapExpire>>
    /\ BlocksFrame

\* The tip is disconnected.
BlockDisconnect ==
    /\ phase = "connected"
    /\ chainBlocks # <<>>
    /\ LET r == UnexpireDomains(chainHeight, blockUndo.vexpired, view, {}, TRUE)
           v2 == DisconnectTxs(r.view, TipBlock.vtx, Len(TipBlock.vtx))
           v3 == ApplyDomainUndo(v2, blockUndo.vdomainundo,
                                 Len(blockUndo.vdomainundo))
           below == SubSeq(chainBlocks, 1, Len(chainBlocks) - 1)
       IN  /\ chainRet' = r.ret
           /\ names' = r.names
           /\ view' = IF r.ret = "ok" THEN v3 ELSE r.view
           /\ phase' = IF r.ret = "ok" THEN "connected" ELSE "failed"
           /\ chainBlocks' = below
           /\ blockUndo' = IF below = <<>> THEN EmptyUndo
                           ELSE below[Len(below)].undo
    /\ chainHeight' = chainHeight - 1
    /\ snapBlock' = EmptyView
    /\ snapExpire' = EmptyView
    /\ lastOp' = "DisconnectBlock"
    /\ UNCHANGED nextTx
    /\ BlocksFrame

InitBlocks ==
    /\ fDomainHistory = FALSE
    /\ cache = CDomainCache_clear
    /\ child = CDomainCache_clear
    /\ nOps = 0
    /\ lastOp = "init"
    /\ IterUnused
    /\ PoolUnused
    /\ rules \in BlockRules
    /\ chainBlocks = <<>>
    /\ \E h \in BlockStartHeights :
          /\ h > Len(rules) => rules = [i \in 1..18 |-> 3]
          /\ chainHeight = h - 1
          /\ \E p \in [BlockDomains -> {-1} \cup (h - 3)..(h - 1)] :
                view = BlockView(h, p)
    /\ blockUndo = EmptyUndo
    /\ phase = "connected"
    /\ chainRet = "ok"
    /\ names = {}
    /\ snapBlock = EmptyView
    /\ snapExpire = EmptyView
    /\ nextTx = 1
    /\ ValUnused
    /\ UpdUnused
    /\ FnUnused

NextBlocks ==
    \/ BlockNext
    \/ BlockConnectTx
    \/ ChainExpire
    \/ BlockDisconnect

SpecBlocks == InitBlocks /\ [][NextBlocks]_vars

\* Every record of the view that is not expired at nHeight has its coin.
RecordsHaveCoins(v, nHeight) ==
    \A d \in BlockDomains :
        GetDomain(v, d) # None /\ ~CDomainData_isExpired(GetDomain(v, d), nHeight)
            => IsAvailable(v, GetDomain(v, d).prevout)

\* The coin of every domain of the set is spent in the view.
CoinsSpent(v, ds) ==
    \A d \in ds : GetDomain(v, d) # None /\ ~IsAvailable(v, GetDomain(v, d).prevout)

\* The pair ExpireDomains passes over: at PostmortemHeight the domain
\* "d/postmortem" is reported without its coin being looked at.
PostmortemPair(nHeight) ==
    IF nHeight = PostmortemHeight THEN {PostmortemDomain} ELSE {}

ExpireNoOp ==
    /\ chainRet = "ok"
    /\ names = {}
    /\ view = snapExpire
    /\ blockUndo = EmptyUndo

SpentByExpire == names' \ PostmortemPair(chainHeight)

\* The outpoints of the coins of these domains.
SpentOutpoints == {GetDomain(view, d).prevout : d \in SpentByExpire}

\* The undo entries the step has appended.
ExpireUndo ==
    SubSeq(blockUndo'.vexpired, Len(blockUndo.vexpired) + 1,
           Len(blockUndo'.vexpired))

(***************************************************************************)
(* C38: a successful ExpireDomains leaves every domain record, the expiry  *)
(* index and the domain undo entries as they are; it spends the coin of    *)
(* each domain it reports and no other output, and appends one coin-undo   *)
(* entry for each, in the order of the reported set (byte-wise             *)
(* lexicographic); "d/postmortem" at height 175868 is reported, but its    *)
(* coin is left and it gets no undo entry.                                 *)
(***************************************************************************)
C38_ExpireFrame ==
    [][lastOp' = "ExpireDomains" /\ chainRet' = "ok" =>
          /\ view'.cacheDomains = view.cacheDomains
          /\ view'.dbDomains = view.dbDomains
          /\ view'.dbExpireIndex = view.dbExpireIndex
          /\ blockUndo'.vdomainundo = blockUndo.vdomainundo
          /\ DOMAIN view'.coins \subseteq DOMAIN view.coins
          /\ \A c \in DOMAIN view.coins : \A i \in 1..Len(view.coins[c].vout) :
                IF COutPoint(c, i) \in SpentOutpoints
                THEN ~IsAvailable(view', COutPoint(c, i))
                ELSE /\ IsAvailable(view', COutPoint(c, i))
                            = IsAvailable(view, COutPoint(c, i))
                     /\ IsAvailable(view, COutPoint(c, i)) =>
                            view'.coins[c].vout[i] = view.coins[c].vout[i]
          /\ SubSeq(blockUndo'.vexpired, 1, Len(blockUndo.vexpired))
                = blockUndo.vexpired
          /\ Len(ExpireUndo) = Cardinality(SpentByExpire)
          /\ {ExpireUndo[k].txout.domain : k \in 1..Len(ExpireUndo)} = SpentByExpire
          /\ \A j \in 1..Len(ExpireUndo), k \in 1..Len(ExpireUndo) :
                j < k => LexLess(ExpireUndo[j].txout.domain,
                                 ExpireUndo[k].txout.domain)
          /\ \A k \in 1..Len(ExpireUndo) :
                LET o == GetDomain(view, ExpireUndo[k].txout.domain).prevout
                IN  ExpireUndo[k].txout = view.coins[o[1]].vout[o[2]]
      ]_vars

\* C38's case: ExpireDomains at height 175868 has reported both domains;
\* the coin of PoolD1 is spent and has the one undo entry, the coin of
\* "d/postmortem" is unspent.
C38_Witness ==
    /\ lastOp = "ExpireDomains"
    /\ chainRet = "ok"
    /\ chainHeight = PostmortemHeight
    /\ names = {PoolD1, PostmortemDomain}
    /\ ~IsAvailable(view, GetDomain(view, PoolD1).prevout)
    /\ IsAvailable(view, GetDomain(view, PostmortemDomain).prevout)
    /\ Len(blockUndo.vexpired) = 1
    /\ blockUndo.vexpired[1].txout.domain = PoolD1

(***************************************************************************)
(* C39: CheckDomainTransaction changes nothing in the view; when it        *)
(* rejects, it has marked the validation state invalid, except when the    *)
(* coins of an input cannot be fetched: then it rejects and leaves the     *)
(* state unmarked, as it does when it accepts.                             *)
(***************************************************************************)
C39_RejectMarksState ==
    [][lastOp' = "CheckDomainTransaction" =>
          /\ view' = view
          /\ valRet' = "ok" => ~valState'
          /\ valRet' \notin {"ok", "abort"} =>
                (valState' <=> valRet' # "failed to fetch input coins")
      ]_vars

\* C39's case: a transaction off the allowlist whose second input is not
\* in the view has been rejected, and the state is not marked.
C39_Witness ==
    /\ Checked
    /\ valCall.tx.bug = "none"
    /\ valCall.tx.vin = <<COutPoint(CoinNew1, 1), COutPoint(CoinMissing, 1)>>
    /\ valRet = "failed to fetch input coins"
    /\ ~valState

\* Number of entries of the merged view at or after the seek position.
MergedCount == Cardinality(Merged(cache, base, seekStart))

\* What a call of next () in the present state gives.
NextNow == CCacheDomainIterator_next(cache, base, IterState)

(***************************************************************************)
(* C40: after a seek, next () returns true as long as fewer entries were   *)
(* returned than the merged view has at or after the seek position, and    *)
(* false from then on: once it has returned false, a further next ()       *)
(* returns false, leaves the output arguments untouched and the iterator   *)
(* where it is.                                                            *)
(***************************************************************************)
C40_NextTerminates ==
    /\ [](/\ Len(out) <= MergedCount
          /\ NextNow.ret = (Len(out) < MergedCount)
          /\ lastOp = "next" /\ ~iterRet =>
                /\ Len(out) = MergedCount
                /\ NextNow = [ret |-> FALSE, st |-> IterState,
                              domain |-> None, data |-> None])
    /\ [][lastOp' = "next" =>
              /\ iterRet' = (Len(out) < MergedCount)
              /\ Len(out') = Len(out) + (IF iterRet' THEN 1 ELSE 0)
              /\ SubSeq(out', 1, Len(out)) = out
      ]_vars

\* C40's case: after a seek past the first key, next () has returned two
\* entries, one of the base and one of the cache, and then false; the base
\* holds a key at or after the seek position that the cache deletes.
C40_Witness ==
    /\ lastOp = "next"
    /\ ~iterRet
    /\ seekStart = <<2>>
    /\ Len(out) = 2
    /\ MergedCount = 2
    /\ \E i \in 1..Len(out) : out[i].data = BaseRecord
    /\ \E i \in 1..Len(out) : out[i].data = CacheRecord
    /\ \E k \in AtOrAfter(DOMAIN base, seekStart) : k \in cache.deleted

====
